---- MODULE Spec2Model ----
(***************************************************************************)
(* Pattern detection and ranking of course outcomes (src/patterns.py).    *)
(*                                                                         *)
(* Rates are fractions in the source; here a rate is an integer number of *)
(* percentage points (0.20 is 20), so that every comparison of the code   *)
(* is an exact comparison of rationals.  A missing rate (NaN) is the      *)
(* value NaN below, which is no rate.                                     *)
(***************************************************************************)
EXTENDS Integers, Sequences, FiniteSets, TLC

VARIABLES
    window,     \* the slice of course-term rows handed to one heuristic
    finding,    \* the last heuristic call: its arguments and what it returned
    table,      \* course_term_df, the input of detect_patterns
    cfg,        \* the keyword arguments of the running detect_patterns call
    tieBreak,   \* how this build's quicksort orders rows with equal keys
    pc,         \* position inside detect_patterns
    df,         \* the rows left after the enrollment filter
    todo,       \* the groups the per-course loop has not visited yet
    results,    \* the list `results` of detect_patterns
    output,     \* the returned frame: its columns and its rows
    previous,   \* what the call before the running one returned
    labels,     \* the term labels handed to _build_term_order
    ranking,    \* the dict _build_term_order returned
    section_df, \* the section rows: the cleaned frame, then with its metrics
    report,     \* what _write_priority_concerns wrote, one entry per course
    details,    \* what _write_course_details wrote, one entry per course
    raw_df,     \* the rows of the uploaded sheet, handed to clean_dataframe
    cleaned     \* what clean_dataframe returned

\* the variables of the call of _build_term_order on its own
termVars == <<labels, ranking>>

\* the variables of the steps before and after detect_patterns
reportVars == <<section_df, report, details>>

\* the variables of the call of clean_dataframe on its own
cleanVars == <<raw_df, cleaned>>

vars ==
    <<window, finding, table, cfg, tieBreak, pc, df, todo, results, output,
      previous, termVars, reportVars, cleanVars>>

----------------------------------------------------------------------------
(* Bounds of the model *)

\* longest slice handed to a heuristic in SpecHeur
MaxLen == 4

\* most rows of an input table in Spec
MaxRows == 3

----------------------------------------------------------------------------
(* Values *)

\* np.nan: a rate whose denominator was zero upstream
NaN == -1

\* what a heuristic returns when it does not flag
None == [kind |-> "None"]

\* defaults of detect_patterns, in percentage points
dfw_threshold_default == 20
drop_threshold_default == 10
incomplete_threshold_default == 5
trend_slope_cutoff_default == 1
min_enrollments_default == 20

Max(a, b) == IF a >= b THEN a ELSE b

RECURSIVE Sum(_)
Sum(s) == IF s = <<>> THEN 0 ELSE Head(s) + Sum(Tail(s))

\* df[col].values
Col(rows, col) == [i \in 1..Len(rows) |-> rows[i][col]]

\* fault: a missing value is taken for a rate of zero (fillna(0))
dropna_fills_zero(s) == [i \in 1..Len(s) |-> IF s[i] = NaN THEN 0 ELSE s[i]]

\* Series.dropna()
dropna(s) == SelectSeq(s, LAMBDA v : v # NaN)

\* pd.isna
isna(v) == v = NaN

\* DataFrame.tail(n), n >= 0
tail(rows, n) ==
    IF n >= Len(rows) THEN rows
    ELSE [i \in 1..n |-> rows[Len(rows) - n + i]]

----------------------------------------------------------------------------
(* The four heuristics *)

RECURSIVE best_streak_loop(_, _, _, _)
\* the for loop of _check_persistent
best_streak_loop(values, threshold, streak, best_streak) ==
    IF values = <<>> THEN best_streak
    ELSE IF Head(values) >= threshold
         THEN best_streak_loop(Tail(values), threshold, streak + 1,
                               Max(best_streak, streak + 1))
         ELSE best_streak_loop(Tail(values), threshold, 0, best_streak)

\* fault: the streak is never reset by a value below the threshold
_check_persistent_no_reset(rows, rate_col, threshold, n_consecutive) ==
    LET values == dropna(Col(rows, rate_col)) IN
    IF Len(values) < n_consecutive THEN None
    ELSE LET best_streak == Len(SelectSeq(values, LAMBDA v : v >= threshold)) IN
         IF best_streak >= n_consecutive
         THEN [kind |-> "persistent", threshold |-> threshold,
               best_streak |-> best_streak]
         ELSE None

\* fault: a series of exactly n_consecutive rates counts as too short
_check_persistent_longer_series(rows, rate_col, threshold, n_consecutive) ==
    LET values == dropna(Col(rows, rate_col)) IN
    IF Len(values) <= n_consecutive THEN None
    ELSE LET best_streak == best_streak_loop(values, threshold, 0, 0) IN
         IF best_streak >= n_consecutive
         THEN [kind |-> "persistent", threshold |-> threshold,
               best_streak |-> best_streak]
         ELSE None

_check_persistent(rows, rate_col, threshold, n_consecutive) ==
    LET values == dropna(Col(rows, rate_col)) IN
    IF Len(values) < n_consecutive THEN None
    ELSE LET best_streak == best_streak_loop(values, threshold, 0, 0) IN
         IF best_streak >= n_consecutive
         THEN [kind |-> "persistent", threshold |-> threshold,
               best_streak |-> best_streak]
         ELSE None

\* scipy.stats.linregress(x, values).slope with x = 0..n-1, as the fraction
\* ssxym / ssxm; both sums are scaled by n * n to stay in the integers
linregress_slope(values) ==
    LET n == Len(values)
        x == [i \in 1..n |-> i - 1]
        sx == Sum(x)
        sy == Sum(values)
        ssxym == Sum([i \in 1..n |-> (n * x[i] - sx) * (n * values[i] - sy)])
        ssxm == Sum([i \in 1..n |-> (n * x[i] - sx) * (n * x[i] - sx)])
    IN  [num |-> ssxym, den |-> ssxm]

\* fault: the latest value is gated on the threshold itself, not on 0.8 of it
_check_worsening_trend_full_gate(rows, rate_col, threshold, trend_terms, slope_cutoff) ==
    LET recent == tail(rows, trend_terms)
        values == dropna(Col(recent, rate_col))
    IN  IF Len(values) < 3 THEN None
        ELSE LET slope == linregress_slope(values)
                 latest == values[Len(values)]
             IN  IF /\ slope.num > slope_cutoff * slope.den
                    /\ latest >= threshold
                 THEN [kind |-> "trend", slope |-> slope,
                       terms_used |-> Len(values),
                       first_term |-> recent[1].Term,
                       last_term |-> recent[Len(recent)].Term,
                       latest |-> latest]
                 ELSE None

_check_worsening_trend(rows, rate_col, threshold, trend_terms, slope_cutoff) ==
    LET recent == tail(rows, trend_terms)
        values == dropna(Col(recent, rate_col))
    IN  IF Len(values) < 3 THEN None
        ELSE LET slope == linregress_slope(values)
                 latest == values[Len(values)]
             IN  IF /\ slope.num > slope_cutoff * slope.den
                    /\ 5 * latest >= 4 * threshold
                 THEN [kind |-> "trend", slope |-> slope,
                       terms_used |-> Len(values),
                       first_term |-> recent[1].Term,
                       last_term |-> recent[Len(recent)].Term,
                       latest |-> latest]
                 ELSE None

\* prior.mean() and prior.std() (population, ddof = 0) of m values:
\* mean = sum / m and std * std = dev2 / (m * m * m), where dev2 is the sum
\* of the squares of m * v - sum
prior_stats(prior) ==
    LET m == Len(prior)
        s == Sum(prior)
    IN  [m |-> m, sum |-> s,
         dev2 |-> Sum([i \in 1..m |-> (m * prior[i] - s) * (m * prior[i] - s)])]

\* fault: no guard against a prior of zero variance
_check_spike_no_guard(rows, rate_col) ==
    LET values == dropna(Col(rows, rate_col)) IN
    IF Len(values) < 3 THEN None
    ELSE LET prior == SubSeq(values, 1, Len(values) - 1)
             st == prior_stats(prior)
             latest == values[Len(values)]
             excess == st.m * latest - st.sum
         IN  IF excess > 0 /\ st.m * excess * excess > 4 * st.dev2
             THEN [kind |-> "spike", latest |-> latest,
                   mean |-> [num |-> st.sum, den |-> st.m]]
             ELSE None

_check_spike(rows, rate_col) ==
    LET values == dropna(Col(rows, rate_col)) IN
    IF Len(values) < 3 THEN None
    ELSE LET prior == SubSeq(values, 1, Len(values) - 1)
             st == prior_stats(prior)
             latest == values[Len(values)]
             excess == st.m * latest - st.sum
         IN  IF st.dev2 = 0 THEN None
             ELSE IF excess > 0 /\ st.m * excess * excess > 4 * st.dev2
                  THEN [kind |-> "spike", latest |-> latest,
                        mean |-> [num |-> st.sum, den |-> st.m]]
                  ELSE None

\* fault: only the first secondary rate that cleared its threshold is listed
_check_co_occurring_first_only(latest, dfw_threshold, drop_threshold, incomplete_threshold) ==
    LET high_dfw == ~isna(latest["dfw_rate"]) /\ latest["dfw_rate"] >= dfw_threshold
        high_drop == ~isna(latest["drop_rate"]) /\ latest["drop_rate"] >= drop_threshold
        high_inc == /\ ~isna(latest["incomplete_rate"])
                    /\ latest["incomplete_rate"] >= incomplete_threshold
        parts == (IF high_dfw THEN <<"DFW rate">> ELSE <<>>)
                 \o (IF high_drop THEN <<"drop rate">>
                     ELSE IF high_inc THEN <<"incomplete rate">> ELSE <<>>)
    IN  IF high_dfw /\ (high_drop \/ high_inc)
        THEN [kind |-> "co_occurring", parts |-> parts]
        ELSE None

_check_co_occurring(latest, dfw_threshold, drop_threshold, incomplete_threshold) ==
    LET high_dfw == ~isna(latest["dfw_rate"]) /\ latest["dfw_rate"] >= dfw_threshold
        high_drop == ~isna(latest["drop_rate"]) /\ latest["drop_rate"] >= drop_threshold
        high_inc == /\ ~isna(latest["incomplete_rate"])
                    /\ latest["incomplete_rate"] >= incomplete_threshold
        parts == (IF high_dfw THEN <<"DFW rate">> ELSE <<>>)
                 \o (IF high_drop THEN <<"drop rate">> ELSE <<>>)
                 \o (IF high_inc THEN <<"incomplete rate">> ELSE <<>>)
    IN  IF high_dfw /\ (high_drop \/ high_inc)
        THEN [kind |-> "co_occurring", parts |-> parts]
        ELSE None

----------------------------------------------------------------------------
(* Term labels and their chronological order *)

\* The code points of the term labels the model uses (ord of each character).
Chars ==
    "Spring 2020" :> <<83, 112, 114, 105, 110, 103, 32, 50, 48, 50, 48>> @@
    "Fall 2020" :> <<70, 97, 108, 108, 32, 50, 48, 50, 48>> @@
    "Spring 2021" :> <<83, 112, 114, 105, 110, 103, 32, 50, 48, 50, 49>> @@
    "Fall 2021" :> <<70, 97, 108, 108, 32, 50, 48, 50, 49>> @@
    "Spring 2022" :> <<83, 112, 114, 105, 110, 103, 32, 50, 48, 50, 50>> @@
    "Fall 2022" :> <<70, 97, 108, 108, 32, 50, 48, 50, 50>> @@
    "Spring 2023" :> <<83, 112, 114, 105, 110, 103, 32, 50, 48, 50, 51>> @@
    "Fall 2023" :> <<70, 97, 108, 108, 32, 50, 48, 50, 51>> @@
    "Summer 2020" :> <<83, 117, 109, 109, 101, 114, 32, 50, 48, 50, 48>> @@
    "Winter 2020" :> <<87, 105, 110, 116, 101, 114, 32, 50, 48, 50, 48>> @@
    "FALL 2019" :> <<70, 65, 76, 76, 32, 50, 48, 49, 57>> @@
    "spring 2021" :> <<115, 112, 114, 105, 110, 103, 32, 50, 48, 50, 49>> @@
    "Winter 2019" :> <<87, 105, 110, 116, 101, 114, 32, 50, 48, 49, 57>> @@
    "Autumn 2020" :> <<65, 117, 116, 117, 109, 110, 32, 50, 48, 50, 48>> @@
    "Spring Term 2021" :> <<83, 112, 114, 105, 110, 103, 32, 84, 101, 114, 109, 32, 50, 48, 50, 49>> @@
    "Fall -1" :> <<70, 97, 108, 108, 32, 45, 49>> @@
    "Spring 0" :> <<83, 112, 114, 105, 110, 103, 32, 48>> @@
    "Spring" :> <<83, 112, 114, 105, 110, 103>> @@
    "2020" :> <<50, 48, 50, 48>> @@
    "" :> <<>> @@
    "Fall 20x0" :> <<70, 97, 108, 108, 32, 50, 48, 120, 48>> @@
    "TBD" :> <<84, 66, 68>>

\* "spring", "summer", "fall", "winter" as code points, with their order
season_order ==
    <<115, 112, 114, 105, 110, 103>> :> 0 @@
    <<115, 117, 109, 109, 101, 114>> :> 1 @@
    <<102, 97, 108, 108>> :> 2 @@
    <<119, 105, 110, 116, 101, 114>> :> 3

IsSpace(c) == c \in {9, 10, 11, 12, 13, 32}

RECURSIVE split_loop(_, _, _)
\* str.split(): the maximal runs of characters that are not whitespace
split_loop(cs, word, parts) ==
    IF cs = <<>> THEN (IF word = <<>> THEN parts ELSE Append(parts, word))
    ELSE IF IsSpace(Head(cs))
         THEN split_loop(Tail(cs), <<>>,
                         IF word = <<>> THEN parts ELSE Append(parts, word))
         ELSE split_loop(Tail(cs), Append(word, Head(cs)), parts)

split(cs) == split_loop(cs, <<>>, <<>>)

\* str.lower() on ASCII
lower(cs) == [i \in 1..Len(cs) |-> IF cs[i] \in 65..90 THEN cs[i] + 32 ELSE cs[i]]

\* the digits of a decimal literal of int(): a digit, or one "_" between two
IsDigits(cs) ==
    /\ cs # <<>>
    /\ \A i \in 1..Len(cs) :
          \/ cs[i] \in 48..57
          \/ /\ cs[i] = 95
             /\ 1 < i /\ i < Len(cs)
             /\ cs[i - 1] \in 48..57 /\ cs[i + 1] \in 48..57

RECURSIVE DigitsValue(_)
DigitsValue(cs) ==
    IF cs = <<>> THEN 0
    ELSE 10 * DigitsValue(SubSeq(cs, 1, Len(cs) - 1)) + (cs[Len(cs)] - 48)

\* int(token): [ok |-> TRUE, value |-> n], or [ok |-> FALSE] for ValueError
int(cs) ==
    LET signed == cs # <<>> /\ Head(cs) \in {43, 45}
        digits == IF signed THEN Tail(cs) ELSE cs
        value == DigitsValue(SelectSeq(digits, LAMBDA c : c # 95))
    IN  IF IsDigits(digits)
        THEN [ok |-> TRUE,
              value |-> IF signed /\ Head(cs) = 45 THEN 0 - value ELSE value]
        ELSE [ok |-> FALSE]

\* fault: the season is looked up as written, not in lower case
term_sort_key_as_written(term) ==
    LET parts == split(Chars[term]) IN
    IF Len(parts) >= 2
    THEN LET season == parts[1]
             year == int(parts[Len(parts)])
         IN  IF ~year.ok THEN <<0, 0, term>>
             ELSE <<year.value,
                    IF season \in DOMAIN season_order THEN season_order[season] ELSE 5,
                    term>>
    ELSE <<0, 0, term>>

\* fault: a label of one word is parsed too, its only word as the year
term_sort_key_one_word(term) ==
    LET parts == split(Chars[term]) IN
    IF Len(parts) >= 1
    THEN LET season == lower(parts[1])
             year == int(parts[Len(parts)])
         IN  IF ~year.ok THEN <<0, 0, term>>
             ELSE <<year.value,
                    IF season \in DOMAIN season_order THEN season_order[season] ELSE 5,
                    term>>
    ELSE <<0, 0, term>>

\* term_sort_key of _build_term_order: the tuple (year, season, term)
term_sort_key(term) ==
    LET parts == split(Chars[term]) IN
    IF Len(parts) >= 2
    THEN LET season == lower(parts[1])
             year == int(parts[Len(parts)])
         IN  IF ~year.ok THEN <<0, 0, term>>
             ELSE <<year.value,
                    IF season \in DOMAIN season_order THEN season_order[season] ELSE 5,
                    term>>
    ELSE <<0, 0, term>>

\* term_sort_key of every label of the model, computed once
SortKey == [t \in DOMAIN Chars |-> term_sort_key(t)]

RECURSIVE CharsLess(_, _)
\* a < b for two Python strings, given as code points
CharsLess(a, b) ==
    IF b = <<>> THEN FALSE
    ELSE IF a = <<>> THEN TRUE
    ELSE IF Head(a) # Head(b) THEN Head(a) < Head(b)
    ELSE CharsLess(Tail(a), Tail(b))

\* k1 < k2 for two sort keys, as Python compares tuples
KeyLess(k1, k2) ==
    \/ k1[1] < k2[1]
    \/ k1[1] = k2[1] /\ k1[2] < k2[2]
    \/ k1[1] = k2[1] /\ k1[2] = k2[2] /\ CharsLess(Chars[k1[3]], Chars[k2[3]])

\* {t: i for i, t in enumerate(sorted(terms, key=term_sort_key))} for a set
\* of distinct labels: the rank of a label is the number of labels before it
_build_term_order(terms) ==
    LET key == [t \in terms |-> SortKey[t]]
    IN  [t \in terms |-> Cardinality({u \in terms : KeyLess(key[u], key[t])})]

----------------------------------------------------------------------------
(* detect_patterns *)

RESULT_COLUMNS ==
    <<"Subject", "Catalog Number", "latest_dfw_rate", "latest_drop_rate",
      "latest_incomplete_rate", "latest_repeat_rate", "latest_enrollments",
      "avg_enrollments", "latest_num_sections", "reasons", "latest_term">>

\* fault: the empty frame is built without its columns
_empty_result_bare == [columns |-> <<>>, rows |-> <<>>]

_empty_result == [columns |-> RESULT_COLUMNS, rows |-> <<>>]

\* the keys of the dict appended to `results`, in the order it is written
result_keys ==
    <<"Subject", "Catalog Number", "latest_dfw_rate", "latest_drop_rate",
      "latest_incomplete_rate", "latest_repeat_rate", "latest_enrollments",
      "avg_enrollments", "latest_num_sections", "reasons", "latest_term">>

\* pd.DataFrame(results): the columns are the keys of the dicts
DataFrame(rows) == [columns |-> result_keys, rows |-> rows]

\* Series.get(key, default)
get(row, key, default) == IF key \in DOMAIN row THEN row[key] ELSE default

\* the (Subject, Catalog Number) keys of groupby, which iterates over its
\* groups in sorted key order; the model's courses, listed in that order
AllCourses ==
    << [Subject |-> "CHEM", Catalog |-> "101"],
       [Subject |-> "MATH", Catalog |-> "101"] >>

CourseOf(row) == [Subject |-> row.Subject, Catalog |-> row.Catalog]

\* _sort_terms: the frame with its _term_order column.  The frame is kept as
\* the set of its rows: a course has one row per term, so the order of the
\* rows of different courses never reaches a result.
_sort_terms(rows) ==
    LET term_order == _build_term_order({r.Term : r \in rows})
    IN  {("_term_order" :> term_order[r.Term]) @@ r : r \in rows}

\* fault: no row is removed
enrollment_filter_keeps_all(rows, min_enrollments) == rows

\* fault: the cutoff removes whole courses, those with no row at or above it,
\* and keeps every row of the others
enrollment_filter_by_course(rows, min_enrollments) ==
    {r \in rows : \E q \in rows : /\ CourseOf(q) = CourseOf(r)
                                  /\ q.Enrollments >= min_enrollments}

\* df[df["Official Class Enrollments"] >= min_enrollments]
enrollment_filter(rows, min_enrollments) ==
    {r \in rows : r.Enrollments >= min_enrollments}

RECURSIVE RowsOf(_)
\* the rows of a frame one after the other
RowsOf(rows) ==
    IF rows = {} THEN <<>>
    ELSE LET r == CHOOSE q \in rows : TRUE
         IN  <<r>> \o RowsOf(rows \ {r})

\* group.sort_values("_term_order") of one course's rows
sort_values_term_order(group) ==
    LET n == Cardinality(group)
    IN  [i \in 1..n |->
            CHOOSE r \in group :
                Cardinality({q \in group : q._term_order < r._term_order}) = i - 1]

\* fault: the co-occurrence check is run, and appended, first
reasons_of_co_first(recent, latest, c) ==
    LET persistent == _check_persistent(recent, "dfw_rate", c.dfw_threshold,
                                        c.consecutive_terms)
        trend == _check_worsening_trend(recent, "dfw_rate", c.dfw_threshold,
                                        c.trend_terms, c.trend_slope_cutoff)
        spike == _check_spike(recent, "dfw_rate")
        co_issues == _check_co_occurring(latest, c.dfw_threshold, c.drop_threshold,
                                         c.incomplete_threshold)
    IN  (IF co_issues # None THEN <<co_issues>> ELSE <<>>)
        \o (IF persistent # None THEN <<persistent>> ELSE <<>>)
        \o (IF trend # None THEN <<trend>> ELSE <<>>)
        \o (IF spike # None THEN <<spike>> ELSE <<>>)

\* the reasons of one course, in the order the four checks are run
reasons_of(recent, latest, c) ==
    LET persistent == _check_persistent(recent, "dfw_rate", c.dfw_threshold,
                                        c.consecutive_terms)
        trend == _check_worsening_trend(recent, "dfw_rate", c.dfw_threshold,
                                        c.trend_terms, c.trend_slope_cutoff)
        spike == _check_spike(recent, "dfw_rate")
        co_issues == _check_co_occurring(latest, c.dfw_threshold, c.drop_threshold,
                                         c.incomplete_threshold)
    IN  (IF persistent # None THEN <<persistent>> ELSE <<>>)
        \o (IF trend # None THEN <<trend>> ELSE <<>>)
        \o (IF spike # None THEN <<spike>> ELSE <<>>)
        \o (IF co_issues # None THEN <<co_issues>> ELSE <<>>)

\* fault: the heuristics are handed the whole series, not its tail
loop_body_whole_series(course, rows, c, res) ==
    LET group == sort_values_term_order({r \in rows : CourseOf(r) = course})
        recent == group
    IN  IF recent = <<>> THEN res
        ELSE LET latest == recent[Len(recent)]
                 reasons == reasons_of(recent, latest, c)
             IN  IF reasons = <<>> THEN res
                 ELSE Append(res,
                        [Subject |-> course.Subject,
                         Catalog |-> course.Catalog,
                         latest_dfw_rate |-> latest["dfw_rate"],
                         latest_drop_rate |-> latest["drop_rate"],
                         latest_incomplete_rate |-> latest["incomplete_rate"],
                         latest_repeat_rate |-> get(latest, "repeat_rate", NaN),
                         latest_enrollments |-> latest["Enrollments"],
                         avg_enrollments |->
                             [num |-> Sum(Col(group, "Enrollments")),
                              den |-> Len(group)],
                         latest_num_sections |-> get(latest, "num_sections", NaN),
                         reasons |-> reasons,
                         latest_term |-> latest["Term"]])

\* fault: avg_enrollments is the mean over the whole frame, not the group
loop_body_frame_mean(course, rows, c, res) ==
    LET group == sort_values_term_order({r \in rows : CourseOf(r) = course})
        recent == tail(group, c.lookback_window)
    IN  IF recent = <<>> THEN res
        ELSE LET latest == recent[Len(recent)]
                 reasons == reasons_of(recent, latest, c)
             IN  IF reasons = <<>> THEN res
                 ELSE Append(res,
                        [Subject |-> course.Subject,
                         Catalog |-> course.Catalog,
                         latest_dfw_rate |-> latest["dfw_rate"],
                         latest_drop_rate |-> latest["drop_rate"],
                         latest_incomplete_rate |-> latest["incomplete_rate"],
                         latest_repeat_rate |-> get(latest, "repeat_rate", NaN),
                         latest_enrollments |-> latest["Enrollments"],
                         avg_enrollments |->
                             [num |-> Sum(Col(RowsOf(rows), "Enrollments")),
                              den |-> Cardinality(rows)],
                         latest_num_sections |-> get(latest, "num_sections", NaN),
                         reasons |-> reasons,
                         latest_term |-> latest["Term"]])

\* fault: avg_enrollments is the mean over the lookback window
loop_body_window_mean(course, rows, c, res) ==
    LET group == sort_values_term_order({r \in rows : CourseOf(r) = course})
        recent == tail(group, c.lookback_window)
    IN  IF recent = <<>> THEN res
        ELSE LET latest == recent[Len(recent)]
                 reasons == reasons_of(recent, latest, c)
             IN  IF reasons = <<>> THEN res
                 ELSE Append(res,
                        [Subject |-> course.Subject,
                         Catalog |-> course.Catalog,
                         latest_dfw_rate |-> latest["dfw_rate"],
                         latest_drop_rate |-> latest["drop_rate"],
                         latest_incomplete_rate |-> latest["incomplete_rate"],
                         latest_repeat_rate |-> get(latest, "repeat_rate", NaN),
                         latest_enrollments |-> latest["Enrollments"],
                         avg_enrollments |->
                             [num |-> Sum(Col(recent, "Enrollments")),
                              den |-> Len(recent)],
                         latest_num_sections |-> get(latest, "num_sections", NaN),
                         reasons |-> reasons,
                         latest_term |-> latest["Term"]])

\* the body of the per-course loop: the list `results` after one group
loop_body(course, rows, c, res) ==
    LET group == sort_values_term_order({r \in rows : CourseOf(r) = course})
        recent == tail(group, c.lookback_window)
    IN  IF recent = <<>> THEN res
        ELSE LET latest == recent[Len(recent)]
                 reasons == reasons_of(recent, latest, c)
             IN  IF reasons = <<>> THEN res
                 ELSE Append(res,
                        [Subject |-> course.Subject,
                         Catalog |-> course.Catalog,
                         latest_dfw_rate |-> latest["dfw_rate"],
                         latest_drop_rate |-> latest["drop_rate"],
                         latest_incomplete_rate |-> latest["incomplete_rate"],
                         latest_repeat_rate |-> get(latest, "repeat_rate", NaN),
                         latest_enrollments |-> latest["Enrollments"],
                         avg_enrollments |->
                             [num |-> Sum(Col(group, "Enrollments")),
                              den |-> Len(group)],
                         latest_num_sections |-> get(latest, "num_sections", NaN),
                         reasons |-> reasons,
                         latest_term |-> latest["Term"]])

\* fault: a course exactly recency_terms behind is kept
recency_filter_inclusive(res, rows, recency_terms) ==
    LET term_order == _build_term_order({r.Term : r \in rows})
    IN  IF DOMAIN term_order # {}
        THEN LET max_order == CHOOSE m \in {term_order[t] : t \in DOMAIN term_order} :
                                  \A t \in DOMAIN term_order : term_order[t] <= m
             IN  SelectSeq(res, LAMBDA r :
                     max_order - get(term_order, r.latest_term, 0) <= recency_terms)
        ELSE res

\* fault: the newest term is looked for among the rows that passed the
\* enrollment filter only
recency_filter_of_filtered(res, rows, recency_terms) ==
    LET term_order == _build_term_order({r.Term : r \in rows})
        seen == {r.Term : r \in df}
    IN  IF seen # {}
        THEN LET max_order == CHOOSE m \in {term_order[t] : t \in seen} :
                                  \A t \in seen : term_order[t] <= m
             IN  SelectSeq(res, LAMBDA r :
                     max_order - get(term_order, r.latest_term, 0) < recency_terms)
        ELSE res

\* fault: the gap is measured from the newest row of the course in the table,
\* whatever its enrollment
recency_filter_any_row(res, rows, recency_terms) ==
    LET term_order == _build_term_order({r.Term : r \in rows})
        newest(r) == CHOOSE m \in {term_order[q.Term] : q \in {x \in rows : CourseOf(x) = CourseOf(r)}} :
                         \A q \in {x \in rows : CourseOf(x) = CourseOf(r)} : term_order[q.Term] <= m
    IN  IF DOMAIN term_order # {}
        THEN LET max_order == CHOOSE m \in {term_order[t] : t \in DOMAIN term_order} :
                                  \A t \in DOMAIN term_order : term_order[t] <= m
             IN  SelectSeq(res, LAMBDA r : max_order - newest(r) < recency_terms)
        ELSE res

\* the recency filter: the rows kept
recency_filter(res, rows, recency_terms) ==
    LET term_order == _build_term_order({r.Term : r \in rows})
    IN  IF DOMAIN term_order # {}
        THEN LET max_order == CHOOSE m \in {term_order[t] : t \in DOMAIN term_order} :
                                  \A t \in DOMAIN term_order : term_order[t] <= m
             IN  SelectSeq(res, LAMBDA r :
                     max_order - get(term_order, r.latest_term, 0) < recency_terms)
        ELSE res

\* result_df.sort_values("latest_dfw_rate", ascending=False): the row at
\* position i comes before the row at position j.  Missing rates go last, in
\* their order; the default kind, quicksort, is not stable, so rows with
\* equal rates come out in the order this build's sort leaves them in.
sorts_before(rows, i, j, tie) ==
    LET a == rows[i]
        b == rows[j]
    IN  IF isna(a.latest_dfw_rate) THEN isna(b.latest_dfw_rate) /\ i < j
        ELSE \/ isna(b.latest_dfw_rate)
             \/ a.latest_dfw_rate > b.latest_dfw_rate
             \/ /\ a.latest_dfw_rate = b.latest_dfw_rate
                /\ \/ tie[CourseOf(a)] < tie[CourseOf(b)]
                   \/ CourseOf(a) = CourseOf(b) /\ i < j

sort_values_latest_dfw_rate(rows, tie) ==
    LET n == Len(rows)
        pos(i) == 1 + Cardinality({j \in 1..n : sorts_before(rows, j, i, tie)})
    IN  [k \in 1..n |-> rows[CHOOSE i \in 1..n : pos(i) = k]]

----------------------------------------------------------------------------
(* The inputs the model draws *)

\* the terms of the input tables
TableTerms == {"Spring 2020", "Fall 2020", "Spring 2021"}

\* what a course-term row can hold: a section size below or above the usual
\* cutoff, a DFW rate that is missing, low or high, a drop rate low or high
RowValues ==
    { [Enrollments |-> 5,  dfw_rate |-> 50,  drop_rate |-> 20, incomplete_rate |-> 0],
      [Enrollments |-> 30, dfw_rate |-> NaN, drop_rate |-> 0,  incomplete_rate |-> 0],
      [Enrollments |-> 30, dfw_rate |-> 0,   drop_rate |-> 0,  incomplete_rate |-> 0],
      [Enrollments |-> 30, dfw_rate |-> 10,  drop_rate |-> 0,  incomplete_rate |-> 0],
      [Enrollments |-> 30, dfw_rate |-> 50,  drop_rate |-> 0,  incomplete_rate |-> 0],
      [Enrollments |-> 30, dfw_rate |-> 50,  drop_rate |-> 20, incomplete_rate |-> 0] }

Row(course, term, v) ==
    [Subject |-> course.Subject, Catalog |-> course.Catalog, Term |-> term,
     Enrollments |-> v.Enrollments, dfw_rate |-> v.dfw_rate,
     drop_rate |-> v.drop_rate, incomplete_rate |-> v.incomplete_rate]

CourseSet == {AllCourses[i] : i \in 1..Len(AllCourses)}

\* the keyword arguments a call can be given: the defaults for the rate
\* thresholds and the enrollment cutoff, and for the three term counts four
\* combinations in which every pair of values of two of them occurs
AllConfigs ==
    [dfw_threshold : {dfw_threshold_default},
     drop_threshold : {drop_threshold_default},
     incomplete_threshold : {incomplete_threshold_default},
     min_enrollments : {min_enrollments_default},
     consecutive_terms : {1, 2},
     lookback_window : {2, 3},
     trend_terms : {3},
     trend_slope_cutoff : {trend_slope_cutoff_default},
     recency_terms : {1, 2}]

Configs ==
    {c \in AllConfigs :
        (c.consecutive_terms + c.lookback_window + c.recency_terms) % 2 = 1}

\* the orders a sort that is not stable can leave equal keys in
TieBreaks ==
    {f \in [CourseSet -> 1..Cardinality(CourseSet)] :
        \A a, b \in CourseSet : a # b => f[a] # f[b]}

NoCfg == [none |-> TRUE]
NoOutput == [columns |-> <<>>, rows |-> <<>>]
NoCall == [call |-> "none"]
NoRun == [run |-> "none"]
NoOrder == [order |-> "none"]
NoClean == [clean |-> "none"]

----------------------------------------------------------------------------
(* detect_patterns as a state machine *)

Init ==
    /\ \E keys \in SUBSET (CourseSet \X TableTerms) :
          /\ Cardinality(keys) <= MaxRows
          /\ \E f \in [keys -> RowValues] :
                table = {Row(k[1], k[2], f[k]) : k \in keys}
    /\ tieBreak \in TieBreaks
    /\ cfg = NoCfg
    /\ pc = "idle"
    /\ df = {}
    /\ todo = <<>>
    /\ results = <<>>
    /\ output = NoOutput
    /\ window = <<>>
    /\ finding = NoCall
    /\ previous = NoRun
    /\ raw_df = <<>>
    /\ cleaned = NoClean
    /\ labels = {}
    /\ ranking = NoOrder
    /\ section_df = {}
    /\ report = <<>>
    /\ details = <<>>

\* fault: `results` is a list that outlives the call (a mutable default)
Begin_keeps_results(c) ==
    LET filtered == enrollment_filter(_sort_terms(table), c.min_enrollments)
    IN  /\ cfg' = c
        /\ df' = filtered
        /\ IF filtered = {}
           THEN /\ output' = _empty_result
                /\ todo' = <<>>
                /\ pc' = "done"
           ELSE /\ output' = output
                /\ todo' = SelectSeq(AllCourses,
                              LAMBDA k : \E r \in filtered : CourseOf(r) = k)
                /\ pc' = "loop"
        /\ results' = results
        /\ UNCHANGED <<window, finding, table, tieBreak, termVars, reportVars, cleanVars>>

\* a call with the keyword arguments c, up to the groupby: the copy,
\* _sort_terms, the enrollment filter, the empty list `results`
Begin(c) ==
    LET filtered == enrollment_filter(_sort_terms(table), c.min_enrollments)
    IN  /\ cfg' = c
        /\ df' = filtered
        /\ IF filtered = {}
           THEN /\ output' = _empty_result
                /\ todo' = <<>>
                /\ pc' = "done"
           ELSE /\ output' = output
                /\ todo' = SelectSeq(AllCourses,
                              LAMBDA k : \E r \in filtered : CourseOf(r) = k)
                /\ pc' = "loop"
        /\ results' = <<>>
        /\ UNCHANGED <<window, finding, table, tieBreak, termVars, reportVars, cleanVars>>

\* the first call on a table
Start ==
    /\ pc = "idle"
    /\ \E c \in Configs : Begin(c)
    /\ UNCHANGED previous

\* one iteration of `for (subject, catalog), group in courses`
ProcessCourse ==
    /\ pc = "loop"
    /\ todo # <<>>
    /\ results' = loop_body(Head(todo), df, cfg, results)
    /\ todo' = Tail(todo)
    /\ UNCHANGED <<window, finding, table, cfg, tieBreak, pc, df, output>>
    /\ UNCHANGED <<previous, cleanVars, termVars, reportVars>>

\* after the loop: the recency filter, the sort, the return
Finish ==
    /\ pc = "loop"
    /\ todo = <<>>
    /\ output' =
          IF results = <<>> THEN _empty_result
          ELSE LET kept == recency_filter(results, table, cfg.recency_terms)
               IN  IF kept = <<>> THEN _empty_result
                   ELSE DataFrame(sort_values_latest_dfw_rate(kept, tieBreak))
    /\ pc' = "done"
    /\ UNCHANGED <<window, finding, table, cfg, tieBreak, df, todo, results>>
    /\ UNCHANGED <<previous, cleanVars, termVars, reportVars>>

Next == Start \/ ProcessCourse \/ Finish

Spec == Init /\ [][Next]_vars

----------------------------------------------------------------------------
(* detect_patterns called twice on one table *)

\* most rows of an input table in SpecCalls
MaxCallRows == 3

\* what a course-term row of these tables can hold: a small section, a
\* missing, a low and a high DFW rate
CallRowValues ==
    { [Enrollments |-> 5,  dfw_rate |-> 50,  drop_rate |-> 20, incomplete_rate |-> 0],
      [Enrollments |-> 30, dfw_rate |-> NaN, drop_rate |-> 0,  incomplete_rate |-> 0],
      [Enrollments |-> 30, dfw_rate |-> 10,  drop_rate |-> 0,  incomplete_rate |-> 0],
      [Enrollments |-> 30, dfw_rate |-> 50,  drop_rate |-> 20, incomplete_rate |-> 0] }

\* the keyword arguments of these calls: those of Configs, and a lookback
\* window of no term at all
CallConfigs ==
    Configs \cup
    {[c EXCEPT !.lookback_window = 0] :
        c \in {k \in Configs : k.consecutive_terms = 1 /\ k.recency_terms = 2}}

InitCalls ==
    /\ \E keys \in SUBSET (CourseSet \X TableTerms) :
          /\ Cardinality(keys) <= MaxCallRows
          /\ \E f \in [keys -> CallRowValues] :
                table = {Row(k[1], k[2], f[k]) : k \in keys}
    /\ tieBreak \in TieBreaks
    /\ cfg = NoCfg
    /\ pc = "idle"
    /\ df = {}
    /\ todo = <<>>
    /\ results = <<>>
    /\ output = NoOutput
    /\ window = <<>>
    /\ finding = NoCall
    /\ previous = NoRun
    /\ raw_df = <<>>
    /\ cleaned = NoClean
    /\ labels = {}
    /\ ranking = NoOrder
    /\ section_df = {}
    /\ report = <<>>
    /\ details = <<>>

\* the first call on a table
StartCall ==
    /\ pc = "idle"
    /\ \E c \in CallConfigs : Begin(c)
    /\ UNCHANGED previous

\* the same call once more: the same table, the same keyword arguments
Again ==
    /\ pc = "done"
    /\ previous = NoRun
    /\ previous' = output
    /\ Begin(cfg)

NextCalls == StartCall \/ ProcessCourse \/ Finish \/ Again

SpecCalls == InitCalls /\ [][NextCalls]_vars

----------------------------------------------------------------------------
(* detect_patterns on tables with terms below the enrollment cutoff *)

MaxStreakRows == 3

\* what a course-term row of these tables can hold: a small section with
\* rates above and with rates below the thresholds, and a section above the
\* cutoff with a missing DFW rate, with rates of 0, and with a DFW and a drop
\* rate that are exactly the thresholds
StreakRowValues ==
    { [Enrollments |-> 5,  dfw_rate |-> 50,  drop_rate |-> 20, incomplete_rate |-> 0],
      [Enrollments |-> 5,  dfw_rate |-> 0,   drop_rate |-> 0,  incomplete_rate |-> 0],
      [Enrollments |-> 30, dfw_rate |-> NaN, drop_rate |-> 20, incomplete_rate |-> 0],
      [Enrollments |-> 30, dfw_rate |-> 0,   drop_rate |-> 0,  incomplete_rate |-> 0],
      [Enrollments |-> 30, dfw_rate |-> dfw_threshold_default,
       drop_rate |-> drop_threshold_default, incomplete_rate |-> 0] }

\* the keyword arguments of these calls: one term or two terms in a row, a
\* window of all three terms
StreakConfigs ==
    {c \in AllConfigs : c.lookback_window = 3 /\ c.recency_terms = 2}

InitStreaks ==
    /\ \E keys \in SUBSET (CourseSet \X TableTerms) :
          /\ Cardinality(keys) <= MaxStreakRows
          /\ \E f \in [keys -> StreakRowValues] :
                table = {Row(k[1], k[2], f[k]) : k \in keys}
    /\ tieBreak \in TieBreaks
    /\ cfg = NoCfg
    /\ pc = "idle"
    /\ df = {}
    /\ todo = <<>>
    /\ results = <<>>
    /\ output = NoOutput
    /\ window = <<>>
    /\ finding = NoCall
    /\ previous = NoRun
    /\ raw_df = <<>>
    /\ cleaned = NoClean
    /\ labels = {}
    /\ ranking = NoOrder
    /\ section_df = {}
    /\ report = <<>>
    /\ details = <<>>

\* the call on one of these tables
StartStreaks ==
    /\ pc = "idle"
    /\ \E c \in StreakConfigs : Begin(c)
    /\ UNCHANGED previous

NextStreaks == StartStreaks \/ ProcessCourse \/ Finish

SpecStreaks == InitStreaks /\ [][NextStreaks]_vars

----------------------------------------------------------------------------
(* From section rows to flagged courses: compute_metrics,                  *)
(* build_course_term_averages, detect_patterns                             *)

\* np.where(denom > 0, count / denom, np.nan), in percentage points; the
\* counts of the model are drawn so that the quotient is a whole number
\* fault: a rate over a denominator of zero is 0
rate_of_zero_fill(count, denom) == IF denom > 0 THEN (100 * count) \div denom ELSE 0

rate_of(count, denom) == IF denom > 0 THEN (100 * count) \div denom ELSE NaN

\* compute_metrics: the frame with its count and rate columns.  A section
\* row holds the columns Official Class Enrollments (Enrollments), Tot. #
\* Grades used for DFW Rate Analysis (Grades_used), Ds,Fs,Ws used for DFW Rate
\* Analysis (DFW), Dropped, Repeats, Incomplete (I), Extended Incomplete (EI),
\* Permanent Incomplete (PI) and Incomplete lapsed to F (@F).
compute_metrics(rows) ==
    {LET incomplete_count == r.Incomplete_I + r.Incomplete_EI + r.Incomplete_PI
         denom_inc == IF r.Grades_used > 0 THEN r.Grades_used ELSE r.Enrollments
     IN  [dfw_count |-> r.DFW,
          dfw_rate |-> rate_of(r.DFW, r.Grades_used),
          drop_count |-> r.Dropped,
          drop_rate |-> rate_of(r.Dropped, r.Enrollments),
          incomplete_count |-> incomplete_count,
          incomplete_rate |-> rate_of(incomplete_count, denom_inc),
          lapsed_incomplete_count |-> r.Incomplete_lapsed,
          lapsed_incomplete_rate |-> rate_of(r.Incomplete_lapsed, denom_inc),
          repeat_count |-> r.Repeats,
          repeat_rate |-> rate_of(r.Repeats, r.Enrollments)] @@ r : r \in rows}

\* fault: the sections are added up, not averaged
mean_is_sum(values) ==
    LET present == dropna(values)
    IN  IF present = <<>> THEN NaN ELSE Sum(present)

\* fault: the highest section stands for the course
mean_is_max(values) ==
    LET present == dropna(values)
    IN  IF present = <<>> THEN NaN
        ELSE CHOOSE v \in {present[i] : i \in 1..Len(present)} :
                 \A i \in 1..Len(present) : present[i] <= v

\* GroupBy.mean() of one column of one group: missing values are skipped,
\* and a group of nothing but missing values has a missing mean; the values
\* of the model are drawn so that the mean is a whole number
mean(values) ==
    LET present == dropna(values)
    IN  IF present = <<>> THEN NaN ELSE Sum(present) \div Len(present)

\* build_course_term_averages: one row per (Term Description, Subject,
\* Catalog Number) of the frame
build_course_term_averages(rows) ==
    LET keys == {[Term |-> r.Term, Subject |-> r.Subject, Catalog |-> r.Catalog] :
                    r \in rows}
        group(k) == RowsOf({r \in rows : /\ r.Term = k.Term
                                         /\ r.Subject = k.Subject
                                         /\ r.Catalog = k.Catalog})
    IN  {[Term |-> k.Term, Subject |-> k.Subject, Catalog |-> k.Catalog,
          dfw_rate |-> mean(Col(group(k), "dfw_rate")),
          drop_rate |-> mean(Col(group(k), "drop_rate")),
          incomplete_rate |-> mean(Col(group(k), "incomplete_rate")),
          lapsed_incomplete_rate |-> mean(Col(group(k), "lapsed_incomplete_rate")),
          repeat_rate |-> mean(Col(group(k), "repeat_rate")),
          Enrollments |-> mean(Col(group(k), "Enrollments")),
          dfw_count |-> mean(Col(group(k), "dfw_count")),
          drop_count |-> mean(Col(group(k), "drop_count")),
          incomplete_count |-> mean(Col(group(k), "incomplete_count")),
          lapsed_incomplete_count |-> mean(Col(group(k), "lapsed_incomplete_count")),
          repeat_count |-> mean(Col(group(k), "repeat_count")),
          num_sections |-> Len(group(k))] : k \in keys}

\* the written analysis (analysis.py): the priority concerns

\* sec_rates.std() > 0.05, in percentage points
section_std_cutoff == 5

Min(a, b) == IF a < b THEN a ELSE b

RECURSIVE min(_)
min(values) ==
    IF Len(values) = 1 THEN values[1] ELSE Min(values[1], min(Tail(values)))

RECURSIVE max(_)
max(values) ==
    IF Len(values) = 1 THEN values[1] ELSE Max(values[1], max(Tail(values)))

\* fault: the standard deviation of the population, not of the sample
std_exceeds_population(values, cutoff) ==
    LET n == Len(values)
        deviations == [i \in 1..n |-> (n * values[i] - Sum(values)) * (n * values[i] - Sum(values))]
    IN  Sum(deviations) > cutoff * cutoff * n * n * n

\* values.std() > cutoff for two values or more: the sum of the squared
\* deviations from the mean over n - 1, compared without dividing
std_exceeds(values, cutoff) ==
    LET n == Len(values)
        deviations == [i \in 1..n |-> (n * values[i] - Sum(values)) * (n * values[i] - Sum(values))]
    IN  Sum(deviations) > cutoff * cutoff * n * n * (n - 1)

\* the "Section variation" line of a priority concern: the range of the
\* section rates of the latest term, None when the line is not written
section_variation(row, sections) ==
    LET secs == {r \in sections : /\ r.Subject = row.Subject
                                  /\ r.Catalog = row.Catalog
                                  /\ r.Term = row.latest_term}
        sec_rates == dropna(Col(RowsOf(secs), "dfw_rate"))
    IN  IF Cardinality(secs) > 1 /\ Len(sec_rates) > 1
           /\ std_exceeds(sec_rates, section_std_cutoff)
        THEN [low |-> min(sec_rates), high |-> max(sec_rates)]
        ELSE None

\* fault: the number of reasons is not a sort key
scored_sorts_before_rate_only(rows, i, j) ==
    LET a == rows[i]
        b == rows[j]
    IN  \/ ~isna(a.latest_dfw_rate)
           /\ (isna(b.latest_dfw_rate) \/ a.latest_dfw_rate > b.latest_dfw_rate)
        \/ a.latest_dfw_rate = b.latest_dfw_rate /\ i < j

\* sort_values(["n_reasons", "latest_dfw_rate"], ascending=[False, False]):
\* row i comes before row j; a sort on two keys is stable, missing rates
\* come last among rows with as many reasons
scored_sorts_before(rows, i, j) ==
    LET a == rows[i]
        b == rows[j]
    IN  \/ Len(a.reasons) > Len(b.reasons)
        \/ /\ Len(a.reasons) = Len(b.reasons)
           /\ \/ ~isna(a.latest_dfw_rate)
                 /\ (isna(b.latest_dfw_rate) \/ a.latest_dfw_rate > b.latest_dfw_rate)
              \/ a.latest_dfw_rate = b.latest_dfw_rate /\ i < j

sort_values_n_reasons(rows) ==
    LET n == Len(rows)
        place(i) == 1 + Cardinality({j \in 1..n : j # i /\ scored_sorts_before(rows, j, i)})
    IN  [p \in 1..n |-> rows[CHOOSE i \in 1..n : place(i) = p]]

head(rows, n) == SubSeq(rows, 1, Min(n, Len(rows)))

\* how many priority concerns are written
top_n == 5

\* the priority concerns, most severe first
_write_priority_concerns(flagged, sections) ==
    LET top == head(sort_values_n_reasons(flagged), top_n)
    IN  [rank \in 1..Len(top) |->
            [Subject |-> top[rank].Subject,
             Catalog |-> top[rank].Catalog,
             latest_dfw_rate |-> top[rank].latest_dfw_rate,
             latest_term |-> top[rank].latest_term,
             reasons |-> top[rank].reasons,
             section_variation |-> section_variation(top[rank], sections)]]

\* _shorten_reason: the brief version of a Finding
_shorten_reason(reason) ==
    CASE reason.kind = "persistent" -> "persistent high DFW"
      [] reason.kind = "trend" -> "worsening trend"
      [] reason.kind = "spike" -> "recent spike"
      [] reason.kind = "co_occurring" -> "multiple co-occurring issues"

\* the additional flagged courses: the rows of the flagged table after its
\* first five
_write_course_details(flagged) ==
    IF Len(flagged) <= top_n THEN <<>>
    ELSE LET remaining == SubSeq(flagged, top_n + 1, Len(flagged))
         IN  [n \in 1..Len(remaining) |->
                 [Subject |-> remaining[n].Subject,
                  Catalog |-> remaining[n].Catalog,
                  latest_dfw_rate |-> remaining[n].latest_dfw_rate,
                  latest_term |-> remaining[n].latest_term,
                  reasons_short |-> [i \in 1..Len(remaining[n].reasons) |->
                                        _shorten_reason(remaining[n].reasons[i])]]]

\* generate_analysis: the two listings of the report, none when no course
\* is flagged
generate_analysis(flagged, sections) ==
    IF flagged = <<>> THEN [priority_concerns |-> <<>>, course_details |-> <<>>]
    ELSE [priority_concerns |-> _write_priority_concerns(flagged, sections),
          course_details |-> _write_course_details(flagged)]

GenerateAnalysis ==
    /\ pc = "done"
    /\ report' = generate_analysis(output.rows, section_df).priority_concerns
    /\ details' = generate_analysis(output.rows, section_df).course_details
    /\ pc' = "reported"
    /\ UNCHANGED <<window, finding, table, cfg, tieBreak, df, todo, results, output>>
    /\ UNCHANGED <<previous, cleanVars, termVars, section_df>>

\* most section rows of an input in SpecPipeline
MaxSectionRows == 3

SectionNumbers == {"001", "002"}

\* the course of the section rows
SectionCourses == {[Subject |-> "MATH", Catalog |-> "101"]}

\* what a section row can hold: DFW rates of 4, 24, 30 and 40 percent on
\* different numbers of grades, and a section all of whose students dropped
SectionValues ==
    { [Enrollments |-> 50, Grades_used |-> 50, DFW |-> 2,  Dropped |-> 0,
       Repeats |-> 0, Incomplete_I |-> 0, Incomplete_EI |-> 0, Incomplete_PI |-> 0,
       Incomplete_lapsed |-> 0],
      [Enrollments |-> 50, Grades_used |-> 50, DFW |-> 12, Dropped |-> 0,
       Repeats |-> 0, Incomplete_I |-> 0, Incomplete_EI |-> 0, Incomplete_PI |-> 0,
       Incomplete_lapsed |-> 0],
      [Enrollments |-> 50, Grades_used |-> 20, DFW |-> 6,  Dropped |-> 0,
       Repeats |-> 10, Incomplete_I |-> 0, Incomplete_EI |-> 0, Incomplete_PI |-> 0,
       Incomplete_lapsed |-> 0],
      [Enrollments |-> 50, Grades_used |-> 25, DFW |-> 10, Dropped |-> 10,
       Repeats |-> 0, Incomplete_I |-> 2, Incomplete_EI |-> 0, Incomplete_PI |-> 0,
       Incomplete_lapsed |-> 2],
      [Enrollments |-> 10, Grades_used |-> 0,  DFW |-> 0,  Dropped |-> 10,
       Repeats |-> 0, Incomplete_I |-> 0, Incomplete_EI |-> 2, Incomplete_PI |-> 0,
       Incomplete_lapsed |-> 0] }

SectionRow(course, term, section, v) ==
    [Subject |-> course.Subject, Catalog |-> course.Catalog, Term |-> term,
     Section |-> section] @@ v

\* the keyword arguments of the calls of SpecPipeline
PipelineConfigs ==
    {c \in AllConfigs : c.lookback_window = 3 /\ c.recency_terms = 2}

InitPipeline ==
    /\ \E keys \in SUBSET (SectionCourses \X TableTerms \X SectionNumbers) :
          /\ Cardinality(keys) <= MaxSectionRows
          /\ \E f \in [keys -> SectionValues] :
                section_df = {SectionRow(k[1], k[2], k[3], f[k]) : k \in keys}
    /\ report = <<>>
    /\ details = <<>>
    /\ table = {}
    /\ tieBreak \in TieBreaks
    /\ cfg = NoCfg
    /\ pc = "cleaned"
    /\ df = {}
    /\ todo = <<>>
    /\ results = <<>>
    /\ output = NoOutput
    /\ window = <<>>
    /\ finding = NoCall
    /\ previous = NoRun
    /\ raw_df = <<>>
    /\ cleaned = NoClean
    /\ labels = {}
    /\ ranking = NoOrder

ComputeMetrics ==
    /\ pc = "cleaned"
    /\ section_df' = compute_metrics(section_df)
    /\ pc' = "metrics"
    /\ UNCHANGED <<window, finding, table, cfg, tieBreak, df, todo, results, output>>
    /\ UNCHANGED <<previous, cleanVars, termVars, report, details>>

BuildCourseTermAverages ==
    /\ pc = "metrics"
    /\ table' = build_course_term_averages(section_df)
    /\ pc' = "idle"
    /\ UNCHANGED <<window, finding, cfg, tieBreak, df, todo, results, output>>
    /\ UNCHANGED <<previous, cleanVars, termVars, reportVars>>

\* detect_patterns on the course-term averages, unless there are none
StartPipeline ==
    /\ pc = "idle"
    /\ table # {}
    /\ \E c \in PipelineConfigs : Begin(c)
    /\ UNCHANGED previous

NextPipeline ==
    \/ ComputeMetrics
    \/ BuildCourseTermAverages
    \/ StartPipeline
    \/ ProcessCourse
    \/ Finish
    \/ GenerateAnalysis

SpecPipeline == InitPipeline /\ [][NextPipeline]_vars

----------------------------------------------------------------------------
(* clean_dataframe (data_loader.py): the rollup rows *)

\* a cell of the uploaded sheet is text, a number, or missing (nan or None)
Str(s) == [str |-> s]
Num(n) == [num |-> n]
NaNCell == [float |-> "nan"]
NoneCell == [none |-> TRUE]

\* The code points of the texts the cells of the model hold.
CellChars ==
    "MATH" :> <<77, 65, 84, 72>> @@
    "CHEM" :> <<67, 72, 69, 77>> @@
    "Total" :> <<84, 111, 116, 97, 108>> @@
    "TOTAL" :> <<84, 79, 84, 65, 76>> @@
    " total " :> <<32, 116, 111, 116, 97, 108, 32>> @@
    "total" :> <<116, 111, 116, 97, 108>> @@
    "Totals" :> <<84, 111, 116, 97, 108, 115>> @@
    "" :> <<>> @@
    "  " :> <<32, 32>> @@
    "nan" :> <<110, 97, 110>> @@
    "NaN" :> <<78, 97, 78>> @@
    "None" :> <<78, 111, 110, 101>> @@
    "NONE" :> <<78, 79, 78, 69>> @@
    "none" :> <<110, 111, 110, 101>> @@
    "101" :> <<49, 48, 49>> @@
    "102" :> <<49, 48, 50>> @@
    " 101" :> <<32, 49, 48, 49>> @@
    "001" :> <<48, 48, 49>> @@
    "002" :> <<48, 48, 50>> @@
    "099" :> <<48, 57, 57>> @@
    "Fall 2023" :> <<70, 97, 108, 108, 32, 50, 48, 50, 51>>

\* astype(str) on a cell
astype_str(cell) ==
    IF cell = NaNCell THEN "nan" ELSE IF cell = NoneCell THEN "None" ELSE cell.str

RECURSIVE lstrip(_)
lstrip(cs) == IF cs # <<>> /\ IsSpace(Head(cs)) THEN lstrip(Tail(cs)) ELSE cs

RECURSIVE rstrip(_)
rstrip(cs) ==
    IF cs # <<>> /\ IsSpace(cs[Len(cs)]) THEN rstrip(SubSeq(cs, 1, Len(cs) - 1)) ELSE cs

\* str.strip()
strip(value) ==
    CHOOSE t \in DOMAIN CellChars : CellChars[t] = lstrip(rstrip(CellChars[value]))

\* pd.to_numeric(errors="coerce").fillna(0)
to_numeric_fillna(cell) == IF "num" \in DOMAIN cell THEN cell.num ELSE 0

\* the identifier columns as stripped text, the count column as a number
normalize(row) ==
    [row EXCEPT !.Subject = strip(astype_str(@)),
                !.Catalog = strip(astype_str(@)),
                !.Section = strip(astype_str(@)),
                !.Enrollments = to_numeric_fillna(@)]

\* fault: the value is compared as written, not in lower case
_is_rollup_value_as_written(value) ==
    CellChars[value] \in {CellChars["total"], CellChars["nan"], CellChars["none"],
                          CellChars[""]}

\* _is_rollup_value on one value; the column is text by now, so isna() is
\* false of every value
_is_rollup_value(value) ==
    lower(CellChars[value]) \in {CellChars["total"], CellChars["nan"], CellChars["none"],
                                 CellChars[""]}

rollup_mask(row) ==
    \/ _is_rollup_value(row.Subject)
    \/ _is_rollup_value(row.Catalog)
    \/ _is_rollup_value(row.Section)

\* the key of the group of a row; groupby leaves out a row without a term
group_key(row) == <<row.Term, row.Subject, row.Catalog>>

\* the groups come in the sorted order of their keys
key_before(k1, k2) ==
    LET a == <<CellChars[k1[1].str], CellChars[k1[2]], CellChars[k1[3]]>>
        b == <<CellChars[k2[1].str], CellChars[k2[2]], CellChars[k2[3]]>>
    IN  \/ CharsLess(a[1], b[1])
        \/ a[1] = b[1] /\ CharsLess(a[2], b[2])
        \/ a[1] = b[1] /\ a[2] = b[2] /\ CharsLess(a[3], b[3])

\* fewest rows of a group that is searched for an embedded total
multi_group_size == 3

RECURSIVE group_rollups_whole_total(_, _, _)
\* fault: the enrollment is compared with the sum of the whole group
group_rollups_whole_total(rows, members, i) ==
    IF i > Len(rows) THEN <<>>
    ELSE LET group_total == Sum([j \in 1..Len(rows) |->
                                    IF j \in members THEN rows[j].Enrollments ELSE 0])
             others_sum == group_total
             gap == IF rows[i].Enrollments >= others_sum
                    THEN rows[i].Enrollments - others_sum
                    ELSE others_sum - rows[i].Enrollments
         IN  (IF i \in members /\ rows[i].Enrollments > 0 /\ 2 * gap < 1
              THEN <<i>> ELSE <<>>)
             \o group_rollups_whole_total(rows, members, i + 1)

RECURSIVE group_rollups(_, _, _)
\* the indices of the rows of one group whose enrollment is positive and
\* within 0.5 of the sum of the other rows', in the order of the rows
group_rollups(rows, members, i) ==
    IF i > Len(rows) THEN <<>>
    ELSE LET group_total == Sum([j \in 1..Len(rows) |->
                                    IF j \in members THEN rows[j].Enrollments ELSE 0])
             others_sum == group_total - rows[i].Enrollments
             gap == IF rows[i].Enrollments >= others_sum
                    THEN rows[i].Enrollments - others_sum
                    ELSE others_sum - rows[i].Enrollments
         IN  (IF i \in members /\ rows[i].Enrollments > 0 /\ 2 * gap < 1
              THEN <<i>> ELSE <<>>)
             \o group_rollups(rows, members, i + 1)

RECURSIVE rollups_of(_, _)
\* rollup_indices: group after group
rollups_of(rows, groups) ==
    IF groups = {} THEN <<>>
    ELSE LET keys == CHOOSE k \in groups : \A g \in groups \ {k} : key_before(k, g)
             members == {j \in 1..Len(rows) : group_key(rows[j]) = keys}
         IN  (IF Cardinality(members) < multi_group_size THEN <<>>
              ELSE group_rollups(rows, members, 1))
             \o rollups_of(rows, groups \ {keys})

\* _remove_sum_matching_rollups: the rows kept and the rows removed
_remove_sum_matching_rollups(rows) ==
    LET present == {j \in 1..Len(rows) : rows[j].Term # NaNCell}
        multi_groups == {group_key(rows[j]) : j \in
                            {i \in present : Cardinality({q \in present :
                                group_key(rows[q]) = group_key(rows[i])})
                                    >= multi_group_size}}
        rollup_indices == rollups_of(rows, multi_groups)
        dropped == {rollup_indices[n] : n \in 1..Len(rollup_indices)}
        kept == {j \in 1..Len(rows) : j \notin dropped}
    IN  [df_clean |-> [n \in 1..Cardinality(kept) |->
                          rows[CHOOSE j \in kept :
                                  Cardinality({q \in kept : q < j}) = n - 1]],
         removed |-> [n \in 1..Len(rollup_indices) |-> rows[rollup_indices[n]]]]

\* clean_dataframe: (cleaned_df, rollup_count, removed_rows)
clean_dataframe(raw) ==
    LET frame == [i \in 1..Len(raw) |-> normalize(raw[i])]
        total_before == Len(frame)
        removed_text == SelectSeq(frame, LAMBDA row : rollup_mask(row))
        second == _remove_sum_matching_rollups(
                      SelectSeq(frame, LAMBDA row : ~rollup_mask(row)))
    IN  [df_clean |-> second.df_clean,
         rollup_count |-> total_before - Len(second.df_clean),
         removed |-> removed_text \o second.removed]

\* most rows of the sheet in SpecClean
MaxRawRows == 3

RawRow(term, subject, catalog, section, enrollments) ==
    [Term |-> term, Subject |-> subject, Catalog |-> catalog, Section |-> section,
     Enrollments |-> enrollments]

\* the rows of a sheet: sections, a row of twice the size, and rows with one
\* identifier that is a total, blank, missing, or only looks like one
RawRows ==
    {RawRow(Str("Fall 2023"), Str("MATH"), Str("101"), c, Num(30)) :
        c \in {Str("001"), Str("002"), Str(""), Str("NONE"), NoneCell}}
    \cup {RawRow(Str("Fall 2023"), Str("MATH"), Str("101"), Str("099"), Num(60))}
    \cup {RawRow(Str("Fall 2023"), c, Str("101"), Str("001"), Num(30)) :
             c \in {Str("TOTAL"), Str(" total "), Str("Totals"), NaNCell}}
    \cup {RawRow(Str("Fall 2023"), Str("MATH"), c, Str("001"), Num(30)) :
             c \in {Str("Total"), Str("  "), Str(" 101")}}

\* the sequences of at most n rows
RowLists(values, n) == UNION {[1..k -> values] : k \in 0..n}

InitRaw(sheets) ==
    /\ raw_df \in sheets
    /\ cleaned = NoClean
    /\ pc = "raw"
    /\ section_df = {}
    /\ report = <<>>
    /\ details = <<>>
    /\ table = {}
    /\ tieBreak \in TieBreaks
    /\ cfg = NoCfg
    /\ df = {}
    /\ todo = <<>>
    /\ results = <<>>
    /\ output = NoOutput
    /\ window = <<>>
    /\ finding = NoCall
    /\ previous = NoRun
    /\ labels = {}
    /\ ranking = NoOrder

InitClean == InitRaw(RowLists(RawRows, MaxRawRows))

CleanDataframe ==
    /\ pc = "raw"
    /\ cleaned' = clean_dataframe(raw_df)
    /\ pc' = "loaded"
    /\ UNCHANGED <<window, finding, table, cfg, tieBreak, df, todo, results, output>>
    /\ UNCHANGED <<previous, raw_df, termVars, reportVars>>

NextClean == CleanDataframe

SpecClean == InitClean /\ [][NextClean]_vars

\* most rows of the sheet in SpecSums
MaxGroupRows == 4

\* ordinary section rows of two courses, of no, 25 and 50 students, and
\* rows without a term
SumRows ==
    {RawRow(Str("Fall 2023"), Str("MATH"), Str(c), Str("001"), Num(n)) :
        c \in {"101", "102"}, n \in {0, 25, 50}}
    \cup {RawRow(NaNCell, Str("MATH"), Str("101"), Str("001"), Num(n)) : n \in {25, 50}}

InitSums == InitRaw(RowLists(SumRows, MaxGroupRows))

SpecSums == InitSums /\ [][NextClean]_vars

----------------------------------------------------------------------------
(* compute_metrics on its own: rows with and without a denominator *)

\* most rows of the frame handed to compute_metrics in SpecMetrics
MaxMetricRows == 1

\* what a row can hold: enrollments and grades that are zero or not, and
\* counts that divide them into whole percents
MetricValues ==
    [Enrollments : {0, 20}, Grades_used : {0, 10}, DFW : {0, 5}, Dropped : {4},
     Repeats : {2}, Incomplete_I : {1}, Incomplete_EI : {0, 1},
     Incomplete_PI : {0, 2}, Incomplete_lapsed : {1}]

InitMetrics ==
    /\ \E keys \in SUBSET (SectionCourses \X TableTerms \X {"001"}) :
          /\ Cardinality(keys) <= MaxMetricRows
          /\ \E f \in [keys -> MetricValues] :
                section_df = {SectionRow(k[1], k[2], k[3], f[k]) : k \in keys}
    /\ report = <<>>
    /\ details = <<>>
    /\ table = {}
    /\ tieBreak \in TieBreaks
    /\ cfg = NoCfg
    /\ pc = "cleaned"
    /\ df = {}
    /\ todo = <<>>
    /\ results = <<>>
    /\ output = NoOutput
    /\ window = <<>>
    /\ finding = NoCall
    /\ previous = NoRun
    /\ raw_df = <<>>
    /\ cleaned = NoClean
    /\ labels = {}
    /\ ranking = NoOrder

NextMetrics == ComputeMetrics

SpecMetrics == InitMetrics /\ [][NextMetrics]_vars

----------------------------------------------------------------------------
(* detect_patterns and the written analysis on two courses *)

\* most course-term rows of an input in SpecReport
MaxReportRows == 3

\* what a course-term row can hold here: DFW rates at and above the
\* threshold and above one and a half times it, with a low or a high drop
\* rate
ReportRowValues ==
    { [Enrollments |-> 30, dfw_rate |-> 24, drop_rate |-> 0,  incomplete_rate |-> 0],
      [Enrollments |-> 30, dfw_rate |-> 24, drop_rate |-> 20, incomplete_rate |-> 0],
      [Enrollments |-> 30, dfw_rate |-> 30, drop_rate |-> 20, incomplete_rate |-> 0],
      [Enrollments |-> 30, dfw_rate |-> 50, drop_rate |-> 20, incomplete_rate |-> 0] }

\* every course-term row is the average of one section
InitReport ==
    /\ \E keys \in SUBSET (CourseSet \X TableTerms) :
          /\ Cardinality(keys) <= MaxReportRows
          /\ \E f \in [keys -> ReportRowValues] :
                table = {Row(k[1], k[2], f[k]) : k \in keys}
    /\ section_df = {[Section |-> "001"] @@ r : r \in table}
    /\ report = <<>>
    /\ details = <<>>
    /\ tieBreak \in TieBreaks
    /\ cfg = NoCfg
    /\ pc = "idle"
    /\ df = {}
    /\ todo = <<>>
    /\ results = <<>>
    /\ output = NoOutput
    /\ window = <<>>
    /\ finding = NoCall
    /\ previous = NoRun
    /\ raw_df = <<>>
    /\ cleaned = NoClean
    /\ labels = {}
    /\ ranking = NoOrder

NextReport ==
    \/ StartPipeline
    \/ ProcessCourse
    \/ Finish
    \/ GenerateAnalysis

SpecReport == InitReport /\ [][NextReport]_vars

----------------------------------------------------------------------------
(* generate_analysis on its own: a flagged table of more than five courses *)

\* most courses of the flagged table in SpecListing
MaxFlagged == 6

\* the catalog numbers of the flagged courses, by their place in the table
ListCatalogs == <<"101", "102", "103", "104", "105", "106", "107", "108">>

\* what a flagged course can hold: a latest rate of 50 or 24 percent, with a
\* persistence Finding alone or with a co-occurrence Finding as well
FlaggedValues ==
    {[latest_dfw_rate |-> r, reasons |-> f] :
        r \in {24, 50},
        f \in {<<[kind |-> "persistent", threshold |-> dfw_threshold_default,
                  best_streak |-> 1]>>,
               <<[kind |-> "persistent", threshold |-> dfw_threshold_default,
                  best_streak |-> 1],
                 [kind |-> "co_occurring", parts |-> <<"DFW rate", "drop rate">>]>>}}

FlaggedRow(n, v) ==
    [Subject |-> "MATH",
     Catalog |-> ListCatalogs[n],
     latest_dfw_rate |-> v.latest_dfw_rate,
     latest_drop_rate |-> IF Len(v.reasons) = 2 THEN 20 ELSE 0,
     latest_incomplete_rate |-> 0,
     latest_repeat_rate |-> NaN,
     latest_enrollments |-> 30,
     avg_enrollments |-> [num |-> 30, den |-> 1],
     latest_num_sections |-> 1,
     reasons |-> v.reasons,
     latest_term |-> "Spring 2020"]

\* the flagged table as detect_patterns returns it: highest latest rate
\* first; one section row for each course
InitListing ==
    /\ \E k \in 0..MaxFlagged : \E f \in [1..k -> FlaggedValues] :
          /\ \A i, j \in 1..k : i < j => f[i].latest_dfw_rate >= f[j].latest_dfw_rate
          /\ output = IF k = 0 THEN _empty_result
                      ELSE DataFrame([n \in 1..k |-> FlaggedRow(n, f[n])])
    /\ section_df = {[Subject |-> output.rows[n].Subject,
                      Catalog |-> output.rows[n].Catalog,
                      Term |-> output.rows[n].latest_term,
                      Section |-> "001",
                      dfw_rate |-> output.rows[n].latest_dfw_rate] :
                         n \in 1..Len(output.rows)}
    /\ report = <<>>
    /\ details = <<>>
    /\ table = {}
    /\ tieBreak \in TieBreaks
    /\ cfg = NoCfg
    /\ pc = "done"
    /\ df = {}
    /\ todo = <<>>
    /\ results = <<>>
    /\ window = <<>>
    /\ finding = NoCall
    /\ previous = NoRun
    /\ raw_df = <<>>
    /\ cleaned = NoClean
    /\ labels = {}
    /\ ranking = NoOrder

NextListing == GenerateAnalysis

SpecListing == InitListing /\ [][NextListing]_vars

----------------------------------------------------------------------------
(* _build_term_order on its own: one set of labels, one call *)

\* most labels handed to _build_term_order in SpecTerms
MaxLabels == 4

\* the labels of SpecTerms: the four seasons in several cases and years, a
\* season the code does not know, a label of three words, years that are
\* not positive, and labels that do not parse
TermLabels ==
    {"Spring 2020", "Fall 2020", "Spring 2021", "Summer 2020", "Winter 2020",
     "FALL 2019", "spring 2021", "Winter 2019",
     "Autumn 2020", "Spring Term 2021", "Fall -1", "Spring 0",
     "Spring", "2020", "", "Fall 20x0", "TBD"}

InitTerms ==
    /\ labels \in {ls \in SUBSET TermLabels : Cardinality(ls) <= MaxLabels}
    /\ ranking = NoOrder
    /\ pc = "terms"
    /\ window = <<>>
    /\ finding = NoCall
    /\ table = {}
    /\ tieBreak = <<>>
    /\ cfg = NoCfg
    /\ df = {}
    /\ todo = <<>>
    /\ results = <<>>
    /\ output = NoOutput
    /\ previous = NoRun
    /\ raw_df = <<>>
    /\ cleaned = NoClean
    /\ section_df = {}
    /\ report = <<>>
    /\ details = <<>>

CallBuildTermOrder ==
    /\ pc = "terms"
    /\ ranking = NoOrder
    /\ ranking' = _build_term_order(labels)
    /\ UNCHANGED <<window, finding, table, cfg, tieBreak, pc, df, todo, results, output>>
    /\ UNCHANGED <<previous, cleanVars, labels, reportVars>>

NextTerms == CallBuildTermOrder

SpecTerms == InitTerms /\ [][NextTerms]_vars

----------------------------------------------------------------------------
(* The heuristics on their own: one slice, one call *)

\* the terms of a slice, oldest first
WindowTerms ==
    <<"Spring 2020", "Fall 2020", "Spring 2021", "Fall 2021",
      "Spring 2022", "Fall 2022", "Spring 2023", "Fall 2023">>

\* the DFW rates of a slice: missing, or a few levels around the thresholds
WindowRates == {NaN, 0, 10, 20, 30}

\* the series of the tests of src/tests/test_patterns.py
TestSeries ==
    { <<25, 30, 22>>, <<10, 25, 10>>, <<5, 7, 4, 6, 50>>, <<5, 7, 4, 6>>,
      <<5, 10, 15, 20, 25>> }

\* the drop and incomplete rates of the rows of a slice
SecondaryRates == {<<NaN, NaN>>, <<0, 0>>, <<10, 0>>, <<0, 5>>, <<10, 5>>, <<NaN, 5>>}

WindowOf(rates, sec) ==
    [i \in 1..Len(rates) |->
        [Subject |-> "MATH", Catalog |-> "101", Term |-> WindowTerms[i],
         Enrollments |-> 30, dfw_rate |-> rates[i],
         drop_rate |-> sec[1], incomplete_rate |-> sec[2]]]

HeurThresholds == {dfw_threshold_default, 25}
HeurSlopeCutoffs == {trend_slope_cutoff_default, 5}

InitHeur ==
    /\ \E sec \in SecondaryRates :
          \/ \E n \in 0..MaxLen : \E rates \in [1..n -> WindowRates] :
                window = WindowOf(rates, sec)
          \/ \E rates \in TestSeries : window = WindowOf(rates, sec)
    /\ finding = NoCall
    /\ table = {}
    /\ tieBreak = <<>>
    /\ cfg = NoCfg
    /\ pc = "heuristic"
    /\ df = {}
    /\ todo = <<>>
    /\ results = <<>>
    /\ output = NoOutput
    /\ previous = NoRun
    /\ raw_df = <<>>
    /\ cleaned = NoClean
    /\ labels = {}
    /\ ranking = NoOrder
    /\ section_df = {}
    /\ report = <<>>
    /\ details = <<>>

Called == finding.call # "none"

CallCheckPersistent ==
    /\ ~Called
    /\ \E threshold \in HeurThresholds, n_consecutive \in 1..MaxLen :
          finding' = [call |-> "_check_persistent", threshold |-> threshold,
                      n_consecutive |-> n_consecutive,
                      result |-> _check_persistent(window, "dfw_rate", threshold,
                                                   n_consecutive)]
    /\ UNCHANGED <<window, table, cfg, tieBreak, pc, df, todo, results, output>>
    /\ UNCHANGED <<previous, cleanVars, termVars, reportVars>>

CallCheckWorseningTrend ==
    /\ ~Called
    /\ \E threshold \in HeurThresholds, trend_terms \in 2..MaxLen,
          slope_cutoff \in HeurSlopeCutoffs :
          finding' = [call |-> "_check_worsening_trend", threshold |-> threshold,
                      trend_terms |-> trend_terms, slope_cutoff |-> slope_cutoff,
                      result |-> _check_worsening_trend(window, "dfw_rate", threshold,
                                                        trend_terms, slope_cutoff)]
    /\ UNCHANGED <<window, table, cfg, tieBreak, pc, df, todo, results, output>>
    /\ UNCHANGED <<previous, cleanVars, termVars, reportVars>>

CallCheckSpike ==
    /\ ~Called
    /\ finding' = [call |-> "_check_spike", result |-> _check_spike(window, "dfw_rate")]
    /\ UNCHANGED <<window, table, cfg, tieBreak, pc, df, todo, results, output>>
    /\ UNCHANGED <<previous, cleanVars, termVars, reportVars>>

CallCheckCoOccurring ==
    /\ ~Called
    /\ window # <<>>
    /\ \E dfw_threshold \in HeurThresholds :
          finding' = [call |-> "_check_co_occurring", dfw_threshold |-> dfw_threshold,
                      drop_threshold |-> drop_threshold_default,
                      incomplete_threshold |-> incomplete_threshold_default,
                      result |-> _check_co_occurring(window[Len(window)], dfw_threshold,
                                    drop_threshold_default, incomplete_threshold_default)]
    /\ UNCHANGED <<window, table, cfg, tieBreak, pc, df, todo, results, output>>
    /\ UNCHANGED <<previous, cleanVars, termVars, reportVars>>

NextHeur ==
    \/ CallCheckPersistent
    \/ CallCheckWorseningTrend
    \/ CallCheckSpike
    \/ CallCheckCoOccurring

SpecHeur == InitHeur /\ [][NextHeur]_vars

----------------------------------------------------------------------------
(* Properties of the heuristics, checked under SpecHeur *)

RECURSIVE PresentRates(_)
\* the DFW rates of the rows that have one, in the order of the rows
PresentRates(rows) ==
    IF rows = <<>> THEN <<>>
    ELSE IF Head(rows).dfw_rate = NaN THEN PresentRates(Tail(rows))
         ELSE <<Head(rows).dfw_rate>> \o PresentRates(Tail(rows))

\* values[i..j] are all at or above the threshold
IsRun(values, threshold, i, j) == \A k \in i..j : values[k] >= threshold

\* the length of the longest contiguous run of values at or above the threshold
LongestRun(values, threshold) ==
    LET runs == {len \in 1..Len(values) :
                    \E i \in 1..(Len(values) - len + 1) :
                        IsRun(values, threshold, i, i + len - 1)}
    IN  IF runs = {} THEN 0 ELSE CHOOSE len \in runs : \A other \in runs : other <= len

\* C1: _check_persistent returns a Finding exactly when the longest contiguous
\* run of non-missing rates at or above the threshold is at least N long; the
\* Finding reports that run's length; with fewer non-missing rates than N the
\* result is None.
C1_PersistentIffLongestRun ==
    finding.call = "_check_persistent" =>
        LET values == PresentRates(window)
            longest == LongestRun(values, finding.threshold)
        IN  /\ (finding.result # None) <=> (longest >= finding.n_consecutive)
            /\ finding.result # None =>
                  /\ finding.result.kind = "persistent"
                  /\ finding.result.best_streak = longest
                  /\ finding.result.threshold = finding.threshold
            /\ Len(values) < finding.n_consecutive => finding.result = None

\* [0.25, 0.30, 0.22] at threshold 0.20 and N = 2 reports a streak of 3
C1_Witness ==
    /\ finding.call = "_check_persistent"
    /\ Col(window, "dfw_rate") = <<25, 30, 22>>
    /\ finding.threshold = 20
    /\ finding.n_consecutive = 2
    /\ finding.result # None
    /\ finding.result.best_streak = 3

\* C3: _check_spike returns a Finding exactly when there are at least 3
\* non-missing rates, the population variance of all but the last is not 0 and
\* the last is more than two population standard deviations above their mean.
\* With m prior values of sum s and sum of squares q, m * m * variance is
\* m * q - s * s, and latest > mean + 2 * std is
\* m * latest - s > 2 * sqrt(m * q - s * s).
C3_SpikeIffTwoStdAbove ==
    finding.call = "_check_spike" =>
        LET values == PresentRates(window)
            n == Len(values)
            prior == SubSeq(values, 1, n - 1)
            m == n - 1
            s == Sum(prior)
            q == Sum([i \in 1..m |-> prior[i] * prior[i]])
            var == m * q - s * s
            above == m * values[n] - s
        IN  /\ (finding.result # None) <=>
                  (n >= 3 /\ var # 0 /\ above > 0 /\ above * above > 4 * var)
            /\ finding.result # None =>
                  /\ finding.result.kind = "spike"
                  /\ finding.result.latest = values[n]
                  /\ finding.result.mean.num = s /\ finding.result.mean.den = m
            /\ Col(window, "dfw_rate") = <<5, 7, 4, 6, 50>> => finding.result # None
            /\ Col(window, "dfw_rate") = <<5, 7, 4, 6>> => finding.result = None

\* the spike of the test: [0.05, 0.07, 0.04, 0.06, 0.50]
C3_Witness ==
    /\ finding.call = "_check_spike"
    /\ Col(window, "dfw_rate") = <<5, 7, 4, 6, 50>>
    /\ finding.result # None
    /\ finding.result.latest = 50

\* the rows DataFrame.tail(k) keeps: the last k
LastRows(rows, k) ==
    SubSeq(rows, IF Len(rows) > k THEN Len(rows) - k + 1 ELSE 1, Len(rows))

\* C4: _check_worsening_trend returns a Finding exactly when the last
\* trend_terms rows hold at least 3 non-missing rates, the least-squares slope
\* of those rates against 0..n-1, (n Sxy - Sx Sy) / (n Sxx - Sx Sx), is above
\* the cutoff, and the last of them is at least 0.8 of the threshold; so none
\* is returned when trend_terms, or the slice, is shorter than 3.
C4_TrendIffSlopeAndGate ==
    finding.call = "_check_worsening_trend" =>
        LET values == PresentRates(LastRows(window, finding.trend_terms))
            n == Len(values)
            sx == Sum([i \in 1..n |-> i - 1])
            sy == Sum(values)
            sxx == Sum([i \in 1..n |-> (i - 1) * (i - 1)])
            sxy == Sum([i \in 1..n |-> (i - 1) * values[i]])
        IN  /\ (finding.result # None) <=>
                  /\ n >= 3
                  /\ n * sxy - sx * sy > finding.slope_cutoff * (n * sxx - sx * sx)
                  /\ 10 * values[n] >= 8 * finding.threshold
            /\ finding.result # None =>
                  /\ finding.result.kind = "trend"
                  /\ finding.result.latest = values[n]
                  /\ finding.result.terms_used = n
            /\ (finding.trend_terms < 3 \/ Len(window) < 3) => finding.result = None

\* a rising course still under the threshold, at or above 0.8 of it, is flagged
C4_Witness ==
    /\ finding.call = "_check_worsening_trend"
    /\ finding.result # None
    /\ finding.result.latest < finding.threshold
    /\ \E i \in 1..Len(window) : window[i].dfw_rate = NaN

\* C26: the term range of a trend Finding is the range the fit covers: its
\* first and last term are the terms of the first and the last non-missing
\* rate among the last trend_terms rows, the number of terms is the number of
\* those rates, and the latest value is the rate of the reported last term.
C26_TrendRangeIsTheFitted ==
    (finding.call = "_check_worsening_trend" /\ finding.result # None) =>
        LET recent == LastRows(window, finding.trend_terms)
            fitted == {i \in 1..Len(recent) : recent[i].dfw_rate # NaN}
            first == CHOOSE i \in fitted : \A k \in fitted : i <= k
            last == CHOOSE i \in fitted : \A k \in fitted : i >= k
        IN  /\ finding.result.first_term = recent[first].Term
            /\ finding.result.last_term = recent[last].Term
            /\ finding.result.terms_used = Cardinality(fitted)
            /\ \E i \in 1..Len(recent) :
                  /\ recent[i].Term = finding.result.last_term
                  /\ recent[i].dfw_rate = finding.result.latest

\* the rates of the latest row that are present and at or above their threshold
Cleared(latest, f) ==
    {name \in {"DFW rate", "drop rate", "incomplete rate"} :
        LET rate == IF name = "DFW rate" THEN latest.dfw_rate
                    ELSE IF name = "drop rate" THEN latest.drop_rate
                    ELSE latest.incomplete_rate
            threshold == IF name = "DFW rate" THEN f.dfw_threshold
                         ELSE IF name = "drop rate" THEN f.drop_threshold
                         ELSE f.incomplete_threshold
        IN  rate # NaN /\ rate >= threshold}

\* C5: _check_co_occurring returns a Finding exactly when the DFW rate of the
\* latest row cleared its threshold and so did the drop or the incomplete
\* rate; the Finding lists every rate that cleared its threshold, once each,
\* DFW first, then drop, then incomplete, and no other.
C5_CoOccurringListsAllCleared ==
    finding.call = "_check_co_occurring" =>
        LET cleared == Cleared(window[Len(window)], finding)
            order == <<"DFW rate", "drop rate", "incomplete rate">>
        IN  /\ (finding.result # None) <=>
                  /\ "DFW rate" \in cleared
                  /\ cleared \cap {"drop rate", "incomplete rate"} # {}
            /\ finding.result # None =>
                  /\ finding.result.kind = "co_occurring"
                  /\ finding.result.parts = SelectSeq(order, LAMBDA name : name \in cleared)

\* all three rates cleared their thresholds and all three are listed
C5_Witness ==
    /\ finding.call = "_check_co_occurring"
    /\ finding.result # None
    /\ finding.result.parts = <<"DFW rate", "drop rate", "incomplete rate">>

\* the slice with the rows that have no DFW rate deleted
WithoutMissing(rows) == SelectSeq(rows, LAMBDA r : r.dfw_rate # NaN)

\* C14: what _check_persistent and _check_spike return on a slice is what
\* they return on the slice with the rows of missing DFW rate deleted: a
\* missing rate neither ends a streak nor counts as a rate of zero.
C14_MissingRatesAreAbsent ==
    /\ finding.call = "_check_persistent" =>
          finding.result = _check_persistent(WithoutMissing(window), "dfw_rate",
                                             finding.threshold, finding.n_consecutive)
    /\ finding.call = "_check_spike" =>
          finding.result = _check_spike(WithoutMissing(window), "dfw_rate")

\* a missing rate between two rates above the threshold: a streak of 2
C14_Witness ==
    /\ finding.call = "_check_persistent"
    /\ Col(window, "dfw_rate") = <<30, NaN, 30>>
    /\ finding.threshold = 20
    /\ finding.n_consecutive = 2
    /\ finding.result # None
    /\ finding.result.best_streak = 2

----------------------------------------------------------------------------
(* Properties of detect_patterns, checked under Spec *)

Done == pc = "done"

\* the terms of the input tables, oldest first
Chronological == <<"Spring 2020", "Fall 2020", "Spring 2021">>

TermsIn(rows) == {r.Term : r \in rows}

\* the number of terms of the table that are older than `term`
RankIn(rows, term) ==
    LET at(t) == CHOOSE i \in 1..Len(Chronological) : Chronological[i] = t
    IN  Cardinality({t \in TermsIn(rows) : at(t) < at(term)})

\* how many term ranks the course's latest term is behind the newest term of
\* the whole input table
Gap(flagged) ==
    (Cardinality(TermsIn(table)) - 1) - RankIn(table, flagged.latest_term)

InOutput(flagged) == \E k \in 1..Len(output.rows) : output.rows[k] = flagged

Flagged == {results[i] : i \in 1..Len(results)}

\* C2: a course whose every term has mean enrollment below min_enrollments is
\* never flagged and never output, whatever its rates are.
C2_SmallCoursesNeverOutput ==
    cfg # NoCfg =>
        \A row \in Flagged \cup {output.rows[k] : k \in 1..Len(output.rows)} :
            \E r \in table :
                /\ CourseOf(r) = CourseOf(row)
                /\ r.Enrollments >= cfg.min_enrollments

\* a course with nothing but small sections and a DFW rate far above the
\* threshold is left out of an output that is not empty
C2_Witness ==
    /\ Done
    /\ output.rows # <<>>
    /\ \E c \in CourseSet :
          /\ \E r \in table : CourseOf(r) = c
          /\ \A r \in table : CourseOf(r) = c =>
                /\ r.Enrollments < cfg.min_enrollments
                /\ r.dfw_rate >= 2 * cfg.dfw_threshold
          /\ \A k \in 1..Len(output.rows) : CourseOf(output.rows[k]) # c

\* C6 as stated: a flagged course is dropped exactly when its latest term is
\* more than recency_terms ranks behind the newest term of the table, so one
\* exactly recency_terms behind is kept.
C6_DroppedIffMoreThanRecencyBehind ==
    Done => \A row \in Flagged : ~InOutput(row) <=> Gap(row) > cfg.recency_terms

\* C6, amended: a flagged course is dropped exactly when its latest term is
\* recency_terms or more ranks behind the newest term of the table; it is
\* kept only when it is fewer than recency_terms behind.
C6_DroppedIffRecencyOrMoreBehind ==
    Done => \A row \in Flagged : ~InOutput(row) <=> Gap(row) >= cfg.recency_terms

\* a flagged course exactly recency_terms behind is dropped
C6_Witness ==
    /\ Done
    /\ \E row \in Flagged : Gap(row) = cfg.recency_terms /\ ~InOutput(row)

\* C7: the newest term the recency filter measures from is the newest term of
\* any row of the input table: a flagged course is dropped exactly when some
\* row of the table, be it one the enrollment filter removed or one of a
\* course that was not flagged, is recency_terms or more ranks after the
\* course's latest term.
C7_NewestTermOfWholeTable ==
    Done => \A row \in Flagged :
        ~InOutput(row) <=>
            \E r \in table :
                RankIn(table, r.Term) - RankIn(table, row.latest_term)
                    >= cfg.recency_terms

\* a flagged course is dropped on account of rows that the enrollment filter
\* removed alone
C7_Witness ==
    /\ Done
    /\ \E row \in Flagged :
          /\ ~InOutput(row)
          /\ \A r \in table :
                RankIn(table, r.Term) - RankIn(table, row.latest_term)
                    >= cfg.recency_terms
                => r.Enrollments < cfg.min_enrollments

\* a comes no later than b in descending order of rate, missing rates last
RateOrdered(a, b) ==
    \/ isna(b.latest_dfw_rate)
    \/ ~isna(a.latest_dfw_rate) /\ a.latest_dfw_rate >= b.latest_dfw_rate

EncounterIndex(row) == CHOOSE i \in 1..Len(results) : results[i] = row

\* C8: the output is in non-increasing order of latest_dfw_rate, and courses
\* with equal latest_dfw_rate keep the order in which the loop produced them.
C8_DescendingAndStable ==
    Done => \A i, j \in 1..Len(output.rows) :
        i < j =>
            /\ RateOrdered(output.rows[i], output.rows[j])
            /\ output.rows[i].latest_dfw_rate = output.rows[j].latest_dfw_rate
                  => EncounterIndex(output.rows[i]) < EncounterIndex(output.rows[j])

KindIndex(kind) ==
    CASE kind = "persistent" -> 1
      [] kind = "trend" -> 2
      [] kind = "spike" -> 3
      [] kind = "co_occurring" -> 4
      [] OTHER -> 0

\* C9: every flagged course carries between 1 and 4 Findings, at most one of
\* each kind, in the order persistent, trend, spike, co_occurring.
C9_FindingsInFixedOrder ==
    \A row \in Flagged \cup {output.rows[k] : k \in 1..Len(output.rows)} :
        /\ Len(row.reasons) \in 1..4
        /\ \A i \in 1..Len(row.reasons) : KindIndex(row.reasons[i].kind) \in 1..4
        /\ \A i, j \in 1..Len(row.reasons) :
              i < j => KindIndex(row.reasons[i].kind) < KindIndex(row.reasons[j].kind)

\* a course on which all four checks fired is output
C9_Witness ==
    /\ Done
    /\ \E k \in 1..Len(output.rows) : Len(output.rows[k].reasons) = 4

\* the input is empty, or no row passes the enrollment filter, or no course
\* has a Finding, or no flagged course passes the recency filter
EmptyCase ==
    \/ table = {}
    \/ \A r \in table : r.Enrollments < cfg.min_enrollments
    \/ results = <<>>
    \/ \A row \in Flagged : Gap(row) >= cfg.recency_terms

\* C10: in each of the empty cases the call returns a frame of no rows whose
\* columns are those of a populated result, in their order.
C10_EmptyResultHasSameColumns ==
    Done =>
        /\ output.columns = DataFrame(results).columns
        /\ EmptyCase => output.rows = <<>>

\* courses were flagged and the recency filter removed every one
C10_Witness ==
    /\ Done
    /\ results # <<>>
    /\ output = [columns |-> DataFrame(results).columns, rows |-> <<>>]

----------------------------------------------------------------------------
(* Properties of two calls of detect_patterns, checked under SpecCalls *)

Recalled == pc = "done" /\ previous # NoRun

ChronIndex(t) == CHOOSE i \in 1..Len(Chronological) : Chronological[i] = t

\* the rows of course k that pass the enrollment filter
Qualified(k) ==
    {r \in table : CourseOf(r) = k /\ r.Enrollments >= cfg.min_enrollments}

\* how many of the rows are of a later term than row r
NewerIn(rows, r) ==
    Cardinality({q \in rows : ChronIndex(q.Term) > ChronIndex(r.Term)})

\* the rows of the last lookback_window qualified terms of course k, and the
\* rows of its older qualified terms
Trailing(k) == {r \in Qualified(k) : NewerIn(Qualified(k), r) < cfg.lookback_window}

Older(k) == Qualified(k) \ Trailing(k)

RECURSIVE OldestFirst(_)
\* rows of different terms as a sequence, oldest term first
OldestFirst(rows) ==
    IF rows = {} THEN <<>>
    ELSE LET r == CHOOSE q \in rows : NewerIn(rows, q) = 0
         IN  Append(OldestFirst(rows \ {r}), r)

\* the Findings of course k in a list of results, none if it has no entry
FindingsIn(res, k) ==
    IF \E i \in 1..Len(res) : CourseOf(res[i]) = k
    THEN res[CHOOSE i \in 1..Len(res) : CourseOf(res[i]) = k].reasons
    ELSE <<>>

\* the Findings of course k when the running call is given the table `rows`
FindingsOn(rows, k) ==
    FindingsIn(loop_body(k, enrollment_filter(_sort_terms(rows), cfg.min_enrollments),
                         cfg, <<>>), k)

\* other rates an older term could have had
AltRates ==
    { [dfw_rate |-> NaN, drop_rate |-> NaN, incomplete_rate |-> NaN],
      [dfw_rate |-> 0,   drop_rate |-> 0,   incomplete_rate |-> 0],
      [dfw_rate |-> 50,  drop_rate |-> 20,  incomplete_rate |-> 5] }

\* the table with the rates of its row r changed to a
WithRates(r, a) ==
    (table \ {r}) \cup
    {[r EXCEPT !.dfw_rate = a.dfw_rate, !.drop_rate = a.drop_rate,
               !.incomplete_rate = a.incomplete_rate]}

\* C15: the Findings of a course are those of the four checks on the rows of
\* its last lookback_window terms that pass the enrollment filter; whatever
\* the rates of an older term are changed to, its Findings stay the same;
\* a course with an empty slice gets no entry.
C15_OnlyTheTrailingTermsCount ==
    Done => \A k \in CourseSet :
        LET trailing == Trailing(k)
            older == Qualified(k) \ trailing
            found == FindingsIn(results, k)
        IN  /\ found =
                  IF trailing = {} THEN <<>>
                  ELSE LET recent == OldestFirst(trailing)
                       IN  reasons_of(recent, recent[Len(recent)], cfg)
            /\ \A r \in older, a \in AltRates :
                  FindingsOn(WithRates(r, a), k) = found
            /\ trailing = {} => \A i \in 1..Len(results) : CourseOf(results[i]) # k

\* a course of three terms whose oldest rate is above the threshold, and the
\* two in the window below it, is not flagged when one such term would do
C15_Witness ==
    /\ Done
    /\ cfg.lookback_window = 2
    /\ cfg.consecutive_terms = 1
    /\ \E k \in CourseSet :
          /\ Cardinality(Trailing(k)) = 2
          /\ \E r \in Older(k) : r.dfw_rate >= cfg.dfw_threshold
          /\ \A i \in 1..Len(results) : CourseOf(results[i]) # k

\* the entries of course k in a list of results
EntriesIn(res, k) == SelectSeq(res, LAMBDA row : CourseOf(row) = k)

\* the rows of course k in the input table
OwnRows(k) == {r \in table : CourseOf(r) = k}

\* C18: the entry of a course (its Findings, its snapshot values) is the
\* entry the same call computes from the rows of that course alone, whatever
\* the rows of the other courses are; the recency filter and the sort pass
\* the entries on as they are.
C18_EntryFromOwnRowsAlone ==
    Done =>
        /\ \A k \in CourseSet :
              EntriesIn(results, k) =
                  loop_body(k, enrollment_filter(_sort_terms(OwnRows(k)),
                                                 cfg.min_enrollments), cfg, <<>>)
        /\ \A i \in 1..Len(output.rows) : output.rows[i] \in Flagged

\* a flagged course, and a row of another course in a term of its own that
\* lies before the flagged course's latest term
C18_Witness ==
    /\ Done
    /\ \E row \in Flagged : \E r \in table :
          /\ CourseOf(r) # CourseOf(row)
          /\ r.Enrollments >= cfg.min_enrollments
          /\ ChronIndex(r.Term) < ChronIndex(row.latest_term)
          /\ \A q \in OwnRows(CourseOf(row)) : q.Term # r.Term
          /\ row.avg_enrollments.den = 2

RECURSIVE EnrollmentSum(_)
\* the enrollments of the rows added up
EnrollmentSum(rows) ==
    IF rows = {} THEN 0
    ELSE LET r == CHOOSE q \in rows : TRUE
         IN  r.Enrollments + EnrollmentSum(rows \ {r})

\* C27: every row of the output has latest_enrollments >= min_enrollments
\* and avg_enrollments >= min_enrollments, and avg_enrollments is the mean
\* over all the terms of the course that pass the enrollment filter, those
\* before the lookback window too.
C27_OutputEnrollmentsAtLeastMin ==
    Done => \A i \in 1..Len(output.rows) :
        LET row == output.rows[i]
            terms == Qualified(CourseOf(row))
        IN  /\ row.latest_enrollments >= cfg.min_enrollments
            /\ row.avg_enrollments.num >= cfg.min_enrollments * row.avg_enrollments.den
            /\ row.avg_enrollments.den = Cardinality(terms)
            /\ row.avg_enrollments.num = EnrollmentSum(terms)

\* a course in the output whose qualifying terms outnumber the lookback
\* window
C27_Witness ==
    /\ Done
    /\ \E i \in 1..Len(output.rows) :
          /\ cfg.lookback_window = 2
          /\ output.rows[i].avg_enrollments.den = 3

----------------------------------------------------------------------------
(* Properties of detect_patterns, checked under SpecStreaks *)

\* the latest of the rows of course k that pass the enrollment filter
LatestQualified(k) == CHOOSE r \in Qualified(k) : NewerIn(Qualified(k), r) = 0

\* the rows of course k below the cutoff in terms after its latest
\* qualifying term
LaterBelowCutoff(k) ==
    {r \in OwnRows(k) : /\ r.Enrollments < cfg.min_enrollments
                        /\ ChronIndex(r.Term) > ChronIndex(LatestQualified(k).Term)}

\* C28: latest_term and the snapshot values of a flagged course are those of
\* its latest term that passes the enrollment filter, and the recency gap is
\* measured from that term; rows of later terms below the cutoff change
\* neither the entry nor the term the gap is measured from.
C28_LatestIsLatestQualifying ==
    Done => \A row \in Flagged :
        LET k == CourseOf(row)
            last == LatestQualified(k)
        IN  /\ row.latest_term = last.Term
            /\ row.latest_dfw_rate = last.dfw_rate
            /\ row.latest_drop_rate = last.drop_rate
            /\ row.latest_incomplete_rate = last.incomplete_rate
            /\ row.latest_enrollments = last.Enrollments
            /\ InOutput(row) <=>
                  \A r \in table :
                      RankIn(table, r.Term) - RankIn(table, last.Term)
                          < cfg.recency_terms
            /\ loop_body(k, enrollment_filter(_sort_terms(table \ LaterBelowCutoff(k)),
                                              cfg.min_enrollments), cfg, <<>>)
                   = <<row>>

\* a flagged course with a row below the cutoff, of other rates, in the
\* newest term of the table, dropped as not offered recently
C28_Witness ==
    /\ Done
    /\ \E row \in Flagged : \E r \in LaterBelowCutoff(CourseOf(row)) :
          /\ r.dfw_rate # row.latest_dfw_rate
          /\ \A q \in table : ChronIndex(q.Term) <= ChronIndex(r.Term)
          /\ ~InOutput(row)

\* the DFW rates the persistence check of course k sees: those of its
\* trailing qualifying terms, oldest first, the missing ones left out
QualifyingRates(k) ==
    LET rows == OldestFirst(Trailing(k))
    IN  SelectSeq([i \in 1..Len(rows) |-> rows[i].dfw_rate], LAMBDA v : v # NaN)

\* the Findings of the given kind among those of course k
OfKind(k, kind) == SelectSeq(FindingsIn(results, k), LAMBDA f : f.kind = kind)

\* the rows of course k below the cutoff in a term between two of its
\* qualifying terms with a DFW rate at or above the threshold
Between(k) ==
    {r \in OwnRows(k) :
        /\ r.Enrollments < cfg.min_enrollments
        /\ \E a, b \in Qualified(k) :
              /\ a.dfw_rate # NaN /\ a.dfw_rate >= cfg.dfw_threshold
              /\ b.dfw_rate # NaN /\ b.dfw_rate >= cfg.dfw_threshold
              /\ ChronIndex(a.Term) < ChronIndex(r.Term)
              /\ ChronIndex(r.Term) < ChronIndex(b.Term)}

\* C29: terms below the enrollment cutoff are invisible to the persistence
\* streak: a course has a persistence Finding exactly when the longest run
\* of rates at or above the threshold among its qualifying, non-missing
\* terms in the window, taken one after the other, is at least
\* consecutive_terms long, and the Finding reports that run; a term below
\* the cutoff between two of them neither adds to the run nor ends it.
C29_StreakOverQualifyingTermsOnly ==
    Done => \A k \in CourseSet :
        LET longest == LongestRun(QualifyingRates(k), cfg.dfw_threshold)
            found == OfKind(k, "persistent")
        IN  /\ Len(found) <= 1
            /\ found # <<>> <=> (longest >= cfg.consecutive_terms /\ longest > 0)
            /\ found # <<>> => found[1].best_streak = longest

\* two terms in a row asked for: a course with a term below the cutoff, its
\* rates below the thresholds, between two qualifying terms at the threshold
\* is reported with a streak of 2 terms in a row
C29_Witness ==
    /\ Done
    /\ cfg.consecutive_terms = 2
    /\ \E k \in CourseSet :
          /\ \E r \in Between(k) : r.dfw_rate < cfg.dfw_threshold
          /\ OfKind(k, "persistent") # <<>>
          /\ OfKind(k, "persistent")[1].best_streak = 2

\* C30: with consecutive_terms = 1 every flagged course that has a
\* co-occurrence Finding has a persistence Finding too, and so at least two
\* Findings.
C30_CoOccurrenceImpliesPersistence ==
    (Done /\ cfg.consecutive_terms = 1) => \A k \in CourseSet :
        OfKind(k, "co_occurring") # <<>> =>
            /\ OfKind(k, "persistent") # <<>>
            /\ Len(FindingsIn(results, k)) >= 2

\* a course of one qualifying term, its DFW rate exactly the threshold, with
\* a co-occurrence and a persistence Finding and no other
C30_Witness ==
    /\ Done
    /\ cfg.consecutive_terms = 1
    /\ \E row \in Flagged :
          /\ Cardinality(Qualified(CourseOf(row))) = 1
          /\ row.latest_dfw_rate = cfg.dfw_threshold
          /\ OfKind(CourseOf(row), "co_occurring") # <<>>
          /\ Len(row.reasons) = 2

----------------------------------------------------------------------------
(* Properties of the steps from section rows on, checked under SpecPipeline *)

Averaged == pc \notin {"cleaned", "metrics"}

\* the section rows of one term of one course
SectionsOf(k, t) == {r \in section_df : CourseOf(r) = k /\ r.Term = t}

RECURSIVE Total(_, _)
\* the sum of a column over the rows that have a value in it
Total(rows, col) ==
    IF rows = {} THEN 0
    ELSE LET r == CHOOSE q \in rows : TRUE
         IN  (IF r[col] = NaN THEN 0 ELSE r[col]) + Total(rows \ {r}, col)

\* the column of a course-term row is the plain mean of the sections' values
\* that are present, and missing when none is
IsMeanOf(row, secs, col) ==
    LET present == {r \in secs : r[col] # NaN}
    IN  IF present = {} THEN row[col] = NaN
        ELSE row[col] * Cardinality(present) = Total(present, col)

\* C16: the averaged table has exactly one row for each (term, subject,
\* catalog) of the section rows and no other; its rate columns and its
\* enrollment are the unweighted mean of the sections' values (a section
\* with no value in a column is left out of that mean), and num_sections is
\* the number of section rows of the triple.
C16_OneRowOfMeansPerTriple ==
    Averaged =>
        /\ \A s \in section_df :
              Cardinality({row \in table : CourseOf(row) = CourseOf(s)
                                            /\ row.Term = s.Term}) = 1
        /\ \A row \in table :
              LET secs == SectionsOf(CourseOf(row), row.Term)
              IN  /\ secs # {}
                  /\ row.num_sections = Cardinality(secs)
                  /\ row.Enrollments * Cardinality(secs) = Total(secs, "Enrollments")
                  /\ \A col \in {"dfw_rate", "drop_rate", "incomplete_rate",
                                  "lapsed_incomplete_rate", "repeat_rate"} :
                        IsMeanOf(row, secs, col)

\* 2 of 50 and 10 of 25 grades: the mean of 4 and 40 percent is 22 percent,
\* where the pooled ratio, 12 of 75, is 16 percent
C16_Witness ==
    /\ Averaged
    /\ \E row \in table :
          /\ row.num_sections = 2
          /\ row.dfw_rate = 22
          /\ {r.DFW : r \in SectionsOf(CourseOf(row), row.Term)} = {2, 10}
          /\ {r.Grades_used : r \in SectionsOf(CourseOf(row), row.Term)} = {50, 25}

\* the sections of a term of course k that have grades
Graded(k, t) == {r \in SectionsOf(k, t) : r.Grades_used > 0}

RECURSIVE FractionSum(_)
\* the sum of DFW / Grades_used over section rows, as a fraction
FractionSum(rows) ==
    IF rows = {} THEN [num |-> 0, den |-> 1]
    ELSE LET r == CHOOSE q \in rows : TRUE
             rest == FractionSum(rows \ {r})
         IN  [num |-> r.DFW * rest.den + rest.num * r.Grades_used,
              den |-> r.Grades_used * rest.den]

\* the DFW rate of course k in term t, averaged over its graded sections, is
\* at or above the threshold (in percent)
AveragedAtLeast(k, t, threshold) ==
    LET s == FractionSum(Graded(k, t))
    IN  /\ Graded(k, t) # {}
        /\ 100 * s.num >= threshold * Cardinality(Graded(k, t)) * s.den

Has(k, kind) ==
    \E i \in 1..Len(FindingsIn(results, k)) : FindingsIn(results, k)[i].kind = kind

TermsOf(k) == {t \in TableTerms : SectionsOf(k, t) # {}}

\* every section of course k is graded and at or above the threshold, every
\* term has the mean enrollment to qualify, and there are terms enough
AllSectionsAbove(k) ==
    /\ Cardinality(TermsOf(k)) >= cfg.consecutive_terms
    /\ \A t \in TermsOf(k) :
          /\ Total(SectionsOf(k, t), "Enrollments")
                >= cfg.min_enrollments * Cardinality(SectionsOf(k, t))
          /\ \A r \in SectionsOf(k, t) :
                r.Grades_used > 0 /\ 100 * r.DFW >= cfg.dfw_threshold * r.Grades_used

\* C17: a course has a persistence Finding only when its DFW rate averaged
\* over the sections is at or above the threshold in consecutive_terms terms
\* or more, and a co-occurrence Finding only when the averaged rate of its
\* latest term is; one section above the threshold does not flag a term whose
\* average is below it, and a course whose sections are all at or above the
\* threshold is flagged.
C17_FindingsFromAveragesOnly ==
    Done => \A k \in SectionCourses :
        /\ Has(k, "persistent") =>
              Cardinality({t \in TermsOf(k) : AveragedAtLeast(k, t, cfg.dfw_threshold)})
                  >= cfg.consecutive_terms
        /\ Has(k, "co_occurring") =>
              \E i \in 1..Len(results) :
                  /\ CourseOf(results[i]) = k
                  /\ AveragedAtLeast(k, results[i].latest_term, cfg.dfw_threshold)
        /\ AllSectionsAbove(k) => Has(k, "persistent")

\* the one term of the course has a section at 24 percent and a section at 4
\* percent, one term above the threshold would be enough, and the course is
\* not flagged
C17_Witness ==
    /\ Done
    /\ cfg.consecutive_terms = 1
    /\ results = <<>>
    /\ \E k \in SectionCourses :
          /\ Cardinality(TermsOf(k)) = 1
          /\ \E t \in TermsOf(k) : {r.dfw_rate : r \in SectionsOf(k, t)} = {4, 24}

Reported == pc = "reported"

\* the section rows of the latest term of a priority concern that have a
\* DFW rate
WithRate(entry) ==
    {r \in SectionsOf([Subject |-> entry.Subject, Catalog |-> entry.Catalog],
                      entry.latest_term) : r.Grades_used > 0}

RECURSIVE GapsTo(_, _)
\* the sum of the squared differences between the rate of r and the rates of
\* the rows
GapsTo(r, rows) ==
    IF rows = {} THEN 0
    ELSE LET q == CHOOSE x \in rows : TRUE
         IN  (r.dfw_rate - q.dfw_rate) * (r.dfw_rate - q.dfw_rate)
             + GapsTo(r, rows \ {q})

RECURSIVE SquaredGaps(_)
\* the sum of the squared differences of the rates over the pairs of rows
SquaredGaps(rows) ==
    IF rows = {} THEN 0
    ELSE LET r == CHOOSE x \in rows : TRUE
         IN  GapsTo(r, rows \ {r}) + SquaredGaps(rows \ {r})

\* the sample variance of n values is the sum of the squared differences
\* over the pairs, divided by n (n - 1); 0.05 squared is 25 in squared
\* percentage points
SampleStdAboveFivePoints(rows) ==
    SquaredGaps(rows) > 25 * Cardinality(rows) * (Cardinality(rows) - 1)

----------------------------------------------------------------------------
(* Properties of the priority concerns, checked under SpecReport *)

HasTag(entry, kind) ==
    \E i \in 1..Len(entry.reasons) : entry.reasons[i].kind = kind

\* the tier the severity rules give a course: 1 immediate, 2 moderate,
\* 3 watch, the first that matches
Tier(entry) ==
    IF \/ Len(entry.reasons) >= 2
       \/ HasTag(entry, "persistent")
       \/ ~isna(entry.latest_dfw_rate)
          /\ 2 * entry.latest_dfw_rate > 3 * cfg.dfw_threshold
    THEN 1
    ELSE IF HasTag(entry, "trend") \/ HasTag(entry, "spike") THEN 2 ELSE 3

FlaggedIndex(entry) ==
    CHOOSE i \in 1..Len(output.rows) : CourseOf(output.rows[i]) = CourseOf(entry)

----------------------------------------------------------------------------
(* Properties of compute_metrics, checked under SpecMetrics *)

Computed == pc = "metrics"

\* the rate is the count over the denominator, in percent
IsRatio(rate, count, denom) == rate # NaN /\ rate * denom = 100 * count

\* C21: dfw_rate is the DFW count over the grades used and is undefined, not
\* 0, exactly when no grades were used; drop_rate and repeat_rate are over
\* the enrollments and undefined exactly when those are 0; incomplete_rate
\* (I + EI + PI) and lapsed_incomplete_rate (@F) are over the grades used, or
\* over the enrollments when no grades were used, and undefined only when
\* both are 0.
C21_RatesAndTheirDenominators ==
    Computed => \A r \in section_df :
        /\ isna(r.dfw_rate) <=> r.Grades_used = 0
        /\ r.Grades_used > 0 => IsRatio(r.dfw_rate, r.DFW, r.Grades_used)
        /\ isna(r.drop_rate) <=> r.Enrollments = 0
        /\ isna(r.repeat_rate) <=> r.Enrollments = 0
        /\ r.Enrollments > 0 =>
              /\ IsRatio(r.drop_rate, r.Dropped, r.Enrollments)
              /\ IsRatio(r.repeat_rate, r.Repeats, r.Enrollments)
        /\ isna(r.incomplete_rate) <=> r.Grades_used = 0 /\ r.Enrollments = 0
        /\ isna(r.lapsed_incomplete_rate) <=> r.Grades_used = 0 /\ r.Enrollments = 0
        /\ r.Grades_used > 0 =>
              /\ IsRatio(r.incomplete_rate,
                         r.Incomplete_I + r.Incomplete_EI + r.Incomplete_PI, r.Grades_used)
              /\ IsRatio(r.lapsed_incomplete_rate, r.Incomplete_lapsed, r.Grades_used)
        /\ r.Grades_used = 0 /\ r.Enrollments > 0 =>
              /\ IsRatio(r.incomplete_rate,
                         r.Incomplete_I + r.Incomplete_EI + r.Incomplete_PI, r.Enrollments)
              /\ IsRatio(r.lapsed_incomplete_rate, r.Incomplete_lapsed, r.Enrollments)

\* no grades were used and 4 of 20 enrolled have an incomplete: the DFW rate
\* is undefined and the incomplete rate is 20 percent of the enrollments
C21_Witness ==
    /\ Computed
    /\ \E r \in section_df :
          /\ r.Grades_used = 0 /\ r.Enrollments = 20
          /\ r.Incomplete_I = 1 /\ r.Incomplete_EI = 1 /\ r.Incomplete_PI = 2
          /\ isna(r.dfw_rate)
          /\ r.incomplete_rate = 20
          /\ r.lapsed_incomplete_rate = 5

----------------------------------------------------------------------------
(* Properties of clean_dataframe, checked under SpecClean and SpecSums *)

Loaded == pc = "loaded"

\* the identifier cells that mark a rollup row: "total" in any case and with
\* blanks around it, a blank cell, a missing cell, and the text a missing
\* cell is read as
RollupCells ==
    {Str("Total"), Str("TOTAL"), Str(" total "), Str("total"), Str(""), Str("  "),
     NaNCell, NoneCell, Str("nan"), Str("NaN"), Str("None"), Str("NONE"), Str("none")}

Marked(row) ==
    row.Subject \in RollupCells \/ row.Catalog \in RollupCells
        \/ row.Section \in RollupCells

\* the text of an identifier cell that marks no rollup, without the blanks
\* around it
Trimmed(cell) == IF cell = Str(" 101") THEN "101" ELSE cell.str

\* the rows the text pass keeps, as the cleaned frame holds them
Unmarked ==
    LET kept == SelectSeq(raw_df, LAMBDA row : ~Marked(row))
    IN  [i \in 1..Len(kept) |->
            RawRow(kept[i].Term, Trimmed(kept[i].Subject), Trimmed(kept[i].Catalog),
                   Trimmed(kept[i].Section), kept[i].Enrollments.num)]

MarkedCount == Len(SelectSeq(raw_df, LAMBDA row : Marked(row)))

Siblings(i) ==
    {j \in 1..Len(raw_df) :
        /\ j # i
        /\ raw_df[i].Term # NaNCell
        /\ raw_df[j].Term = raw_df[i].Term
        /\ raw_df[j].Subject = raw_df[i].Subject
        /\ raw_df[j].Catalog = raw_df[i].Catalog}

RECURSIVE Enrolled(_)
\* the enrollments of a set of rows of the sheet, added up
Enrolled(indices) ==
    IF indices = {} THEN 0
    ELSE LET j == CHOOSE x \in indices : TRUE
         IN  raw_df[j].Enrollments.num + Enrolled(indices \ {j})

\* row i has two siblings or more and as many students as they have together
EmbeddedTotal(i) ==
    /\ Cardinality(Siblings(i)) >= 2
    /\ raw_df[i].Enrollments.num > 0
    /\ raw_df[i].Enrollments.num = Enrolled(Siblings(i))

\* row i of the sheet as the cleaned frame holds it (no cell of SpecSums is
\* a rollup label or has blanks around it)
Plain(i) ==
    RawRow(raw_df[i].Term, raw_df[i].Subject.str, raw_df[i].Catalog.str,
           raw_df[i].Section.str, raw_df[i].Enrollments.num)

\* row i is in the table of removed rows (rows of one group that are equal
\* are removed together or not at all)
Dropped(i) == \E n \in 1..Len(cleaned.removed) : cleaned.removed[n] = Plain(i)

RECURSIVE Retained(_)
\* the rows up to row n that are no embedded total, in the order of the sheet
Retained(n) ==
    IF n = 0 THEN <<>>
    ELSE Retained(n - 1) \o (IF EmbeddedTotal(n) THEN <<>> ELSE <<Plain(n)>>)

\* C23: in a (term, subject, catalog) group of 3 rows or more a row with a
\* positive enrollment equal to the sum of the other rows' enrollments is
\* removed although its Section Number is ordinary; all other rows, and so
\* all rows of groups of fewer than 3 rows, are retained in their order.
C23_EmbeddedTotalsRemoved ==
    Loaded =>
        /\ \A i \in 1..Len(raw_df) : Dropped(i) <=> EmbeddedTotal(i)
        /\ cleaned.df_clean = Retained(Len(raw_df))
        /\ cleaned.rollup_count = Cardinality({i \in 1..Len(raw_df) : EmbeddedTotal(i)})
        /\ Len(cleaned.removed) = cleaned.rollup_count

\* sections of 25 and 25 students and a row of 50 in one course, a row of 50
\* in another: the row of 50 of the first course is removed, nothing else
C23_Witness ==
    /\ Loaded
    /\ Len(raw_df) = 4
    /\ cleaned.rollup_count = 1
    /\ cleaned.removed[1].Enrollments = 50
    /\ cleaned.removed[1].Catalog = "101"
    /\ \E i \in 1..3 : /\ cleaned.df_clean[i].Catalog = "102"
                       /\ cleaned.df_clean[i].Enrollments = 50
    /\ Cardinality({i \in 1..3 : /\ cleaned.df_clean[i].Catalog = "101"
                                 /\ cleaned.df_clean[i].Enrollments = 25}) = 2

\* C24: two rows of a group that have the same enrollment are never removed
\* by the sum-matching pass, whatever other rows the group contains.
C24_EqualSectionsNeverDropped ==
    Loaded => \A i \in 1..Len(raw_df) : \A j \in Siblings(i) :
        raw_df[i].Enrollments = raw_df[j].Enrollments => ~Dropped(i) /\ ~Dropped(j)

----------------------------------------------------------------------------
(* Properties of the two listings of the report, checked under SpecListing *)

\* how often a course is listed in a listing
ListedIn(listing, row) ==
    Cardinality({n \in 1..Len(listing) : CourseOf(listing[n]) = CourseOf(row)})

\* C25: for a flagged table that is not empty, every flagged course is
\* listed exactly once in the priority concerns and the additional flagged
\* courses together: none is in both and none is left out.
C25_EveryCourseListedOnce ==
    Reported => \A n \in 1..Len(output.rows) :
        ListedIn(report, output.rows[n]) + ListedIn(details, output.rows[n]) = 1

----------------------------------------------------------------------------
(* Properties of _build_term_order, checked under SpecTerms *)

Ranked == ranking # NoOrder

\* the year and the season that the labels of the form <season> <year> name,
\* as a reader takes them (the seasons are numbered in the order of the year)
Calendar ==
    "Spring 2020" :> <<2020, 1>> @@ "Summer 2020" :> <<2020, 2>> @@
    "Fall 2020" :> <<2020, 3>> @@ "Winter 2020" :> <<2020, 4>> @@
    "FALL 2019" :> <<2019, 3>> @@ "Winter 2019" :> <<2019, 4>> @@
    "Spring 2021" :> <<2021, 1>> @@ "spring 2021" :> <<2021, 1>> @@
    "Fall -1" :> <<-1, 3>> @@ "Spring 0" :> <<0, 1>>

Earlier(a, b) == a[1] < b[1] \/ (a[1] = b[1] /\ a[2] < b[2])

\* C12: the ranks of N distinct labels are 0..N-1, one label each, and of two
\* labels of the form <season> <year> (spring, summer, fall or winter in any
\* case) the one of the smaller year, or of the same year and the earlier
\* season, has the smaller rank.
C12_RanksDenseAndChronological ==
    Ranked =>
        /\ DOMAIN ranking = labels
        /\ {ranking[l] : l \in labels} = 0..(Cardinality(labels) - 1)
        /\ \A a, b \in labels \cap DOMAIN Calendar :
              Earlier(Calendar[a], Calendar[b]) => ranking[a] < ranking[b]

\* four labels in mixed case rank by year, then by season
C12_Witness ==
    /\ Ranked
    /\ labels = {"Winter 2019", "spring 2021", "FALL 2019", "Summer 2020"}
    /\ ranking["FALL 2019"] = 0
    /\ ranking["Winter 2019"] = 1
    /\ ranking["Summer 2020"] = 2
    /\ ranking["spring 2021"] = 3

\* the labels with fewer than two words, or whose last word is no integer, in
\* the order of their raw text
MalformedInOrder == <<"", "2020", "Fall 20x0", "Spring", "TBD">>

MalformedLabels == {MalformedInOrder[i] : i \in 1..Len(MalformedInOrder)}

\* C13 as stated: every label gets a rank, every malformed label ranks before
\* every label that parses, and the malformed labels rank among themselves in
\* the order of their raw text.
C13_MalformedBeforeAllParsed ==
    Ranked =>
        /\ DOMAIN ranking = labels
        /\ \A m \in labels \cap MalformedLabels :
              \A v \in labels \ MalformedLabels : ranking[m] < ranking[v]
        /\ \A i, j \in 1..Len(MalformedInOrder) :
              (i < j /\ {MalformedInOrder[i], MalformedInOrder[j]} \subseteq labels)
                  => ranking[MalformedInOrder[i]] < ranking[MalformedInOrder[j]]

\* the year of the labels that parse and are not of the form <season> <year>
OtherYears == "Autumn 2020" :> 2020 @@ "Spring Term 2021" :> 2021

YearOf(l) == IF l \in DOMAIN Calendar THEN Calendar[l][1] ELSE OtherYears[l]

\* C13, amended: every label gets a rank, every malformed label ranks before
\* every label that parses to a year of 1 or more, and the malformed labels
\* rank among themselves in the order of their raw text.
C13_MalformedBeforePositiveYears ==
    Ranked =>
        /\ DOMAIN ranking = labels
        /\ \A m \in labels \cap MalformedLabels :
              \A v \in labels \ MalformedLabels :
                  YearOf(v) >= 1 => ranking[m] < ranking[v]
        /\ \A i, j \in 1..Len(MalformedInOrder) :
              (i < j /\ {MalformedInOrder[i], MalformedInOrder[j]} \subseteq labels)
                  => ranking[MalformedInOrder[i]] < ranking[MalformedInOrder[j]]

\* two malformed labels rank in the order of their text, after a label of a
\* negative year and before a label of the year 2020
C13_Witness ==
    /\ Ranked
    /\ labels = {"TBD", "2020", "Fall 2020", "Fall -1"}
    /\ ranking["Fall -1"] = 0
    /\ ranking["2020"] = 1
    /\ ranking["TBD"] = 2
    /\ ranking["Fall 2020"] = 3
====
